---- MODULE Spec2Model ----
(***************************************************************************)
(* Multi-source literature aggregation: MultiSourceManager                 *)
(* (src/integrations/multi_source_manager.py), EnhancedLiteratureAgent     *)
(* (src/agents/enhanced_literature_agent.py) and the adapters              *)
(* WebSearchSource, ZoteroSource and LocalKnowledgeSource                  *)
(* (src/integrations/web_search.py, zotero_source.py, local_knowledge.py). *)
(* Also WritingAgent.call_llm / handle (src/agents/writing_agent.py) and   *)
(* ErrorHandler.handle_error (src/mcp/exceptions.py).                      *)
(*                                                                         *)
(* Text is a sequence of one-character strings, so that lower(), strip()   *)
(* and the substring test are computed character by character.  The        *)
(* relevance score is kept exact by scaling: the model's score is 100      *)
(* times the Python float (term weights x10, source weights x10).          *)
(***************************************************************************)
EXTENDS Integers, Sequences, FiniteSets, TLC

\* ------------------------------------------------------------------ bounds
MaxResults == 3    \* most results the sources of one gather return in all
MaxLimit == 3      \* largest total_limit / limit_per_source a caller passes
MaxBaseRows == 2   \* most rows of the baseline table

\* ------------------------------------------------------------ text helpers
Min(S) == CHOOSE x \in S : \A y \in S : x <= y
Max(S) == CHOOSE x \in S : \A y \in S : x >= y

SeqUpTo(S, n) == UNION {[1..k -> S] : k \in 0..n}

\* str.lower() on the model's alphabet
LowerChar(c) ==
    IF c = "A" THEN "a" ELSE IF c = "B" THEN "b" ELSE IF c = "C" THEN "c" ELSE c

lower(s) == [i \in 1..Len(s) |-> LowerChar(s[i])]

\* str.strip(): leading and trailing whitespace removed, inner kept
strip(s) ==
    LET idx == {i \in 1..Len(s) : s[i] # " "}
    IN  IF idx = {} THEN <<>> ELSE SubSeq(s, Min(idx), Max(idx))

\* Python's `sub in s` on strings
Contains(sub, s) ==
    \E i \in 0..(Len(s) - Len(sub)) : SubSeq(s, i + 1, i + Len(sub)) = sub

\* -------------------------------------------------------------- exceptions
\* The outcome of a call: a value, an exception that left the call, or not
\* finished yet.
Ok(v) == [st |-> "ok", val |-> v]
Raised == [st |-> "raised", val |-> <<>>]
Pending == [st |-> "pending", val |-> <<>>]
IsRaised(o) == o.st = "raised"
IsOk(o) == o.st = "ok"

\* An optional value (a dict key that may be missing, an argument that may
\* be None): None, or Some(v).
None == <<>>
Some(v) == <<v>>

\* ------------------------------------------------------------ SearchResult
\* metadata['data_source'] is Absent until search_aggregated stamps it.
Absent == "<absent>"

SearchResult(t, au, ab, src) ==
    [title |-> t, authors |-> au, abstract |-> ab, source |-> src,
     data_source |-> Absent]

\* ---------------------------------------------------- MultiSourceManager
\* source_types: the adapter classes the manager knows
source_types == {"web_search", "zotero", "local_knowledge"}

\* A source's configuration value.  kind is "dict" for a mapping, "none" for
\* None and "str" for a string; a mapping has an optional 'type', the Zotero
\* keys, and rag_path tells whether os.path.exists(rag_system_path).
SourceConfig(type, api_key, user_id, group_id, rag_path) ==
    [kind |-> "dict", type |-> type, api_key |-> api_key, user_id |-> user_id,
     group_id |-> group_id, rag_path |-> rag_path]

NotADict(kind) ==
    [kind |-> kind, type |-> None, api_key |-> <<>>, user_id |-> None,
     group_id |-> None, rag_path |-> FALSE]

\* source_class(config): WebSearchSource merges {**default_config,
\* **(config or {})}, which takes None and raises on a string; ZoteroSource
\* and LocalKnowledgeSource read config.get(...), which raises on both.
Construct(type, cfg) ==
    IF type = "web_search"
    THEN IF cfg.kind = "str" THEN Raised ELSE Ok(cfg)
    ELSE IF cfg.kind = "dict" THEN Ok(cfg) ELSE Raised

\* validate_config() of the constructed adapter
ValidateConfig(type, cfg) ==
    IF type = "web_search" THEN TRUE
    ELSE IF type = "zotero"
    THEN /\ cfg.api_key # <<>>
         /\ (cfg.user_id # None \/ cfg.group_id # None)
    ELSE cfg.rag_path

\* the try block shared by _initialize_sources and add_source: construct,
\* validate, and tell whether the source is to be registered
Registers(type, cfg) ==
    /\ IsOk(Construct(type, cfg))
    /\ ValidateConfig(type, cfg)

\* self.sources[source_name] = source_instance (an adapter of the type,
\* holding its config): a new key goes last, an existing key keeps its place
SetSource(srcs, name, type, cfg) ==
    LET inst == [name |-> name, type |-> type, config |-> cfg]
    IN  IF \E i \in 1..Len(srcs) : srcs[i].name = name
        THEN [i \in 1..Len(srcs) |-> IF srcs[i].name = name THEN inst ELSE srcs[i]]
        ELSE Append(srcs, inst)

\* del self.sources[source_name]
DelSource(srcs, name) == SelectSeq(srcs, LAMBDA x : x.name # name)

AddSourceUnvalidated(srcs, name, type, cfg) ==
    IF type \notin source_types THEN [sources |-> srcs, ret |-> Ok("False")]
    ELSE IF IsRaised(Construct(type, cfg)) THEN [sources |-> srcs, ret |-> Ok("False")]
    ELSE [sources |-> SetSource(srcs, name, type, cfg),
          ret |-> Ok(IF ValidateConfig(type, cfg) THEN "True" ELSE "False")]

\* add_source(source_name, source_type, config): the mapping afterwards and
\* the flag returned
add_source(srcs, name, type, cfg) ==
    IF type \notin source_types THEN [sources |-> srcs, ret |-> Ok("False")]
    ELSE IF Registers(type, cfg)
    THEN [sources |-> SetSource(srcs, name, type, cfg), ret |-> Ok("True")]
    ELSE [sources |-> srcs, ret |-> Ok("False")]

\* remove_source(source_name)
remove_source(srcs, name) ==
    IF \E i \in 1..Len(srcs) : srcs[i].name = name
    THEN [sources |-> DelSource(srcs, name), ret |-> Ok("True")]
    ELSE [sources |-> srcs, ret |-> Ok("False")]

\* DataSource.health_check, awaited: a trivial search is made; True when it
\* returns, False when it raises
SourceHealthCheck(probe) == IF probe = "raises" THEN "False" ELSE "True"

\* what calling the `async def health_check` without awaiting it yields
Coroutine == "<coroutine>"

\* MultiSourceManager.health_check: a plain method that stores
\* source.health_check() per source; the call of the coroutine function
\* runs none of its body, so nothing is raised and nothing is awaited
health_check(srcs, probe) ==
    Ok([i \in 1..Len(srcs) |-> [name |-> srcs[i].name, value |-> Coroutine]])

\* _initialize_sources: source_config.get('type') is evaluated outside the
\* try block, so a value that is no mapping raises out of the loop (and of
\* the constructor); an entry is registered under its name when its type is
\* known, the adapter constructs and validate_config() is true.
InitializeSources(config) ==
    LET F[i \in 0..Len(config)] ==
            IF i = 0 THEN Ok(<<>>)
            ELSE LET e == config[i]
                 IN  IF IsRaised(F[i - 1]) THEN Raised
                     ELSE IF e.value.kind # "dict" THEN Raised
                     ELSE IF /\ e.value.type # None
                             /\ e.value.type[1] \in source_types
                             /\ Registers(e.value.type[1], e.value)
                     THEN Ok(SetSource(F[i - 1].val, e.name, e.value.type[1], e.value))
                     ELSE F[i - 1]
    IN  F[Len(config)]

LimitPerSourceUnguarded(total_limit, n) ==
    IF n = 0 \/ total_limit = None THEN Raised
    ELSE IF total_limit[1] \div n >= 1 THEN Ok(total_limit[1] \div n) ELSE Ok(1)

LimitPerSourceNoFloor(total_limit, n) ==
    IF n = 0 THEN Ok(0)
    ELSE IF total_limit = None THEN Raised
    ELSE Ok(total_limit[1] \div n)

\* limit_per_source = max(1, total_limit // len(self.sources)) if self.sources else 0
\* (total_limit // n raises TypeError when total_limit is None)
LimitPerSource(total_limit, n) ==
    IF n = 0 THEN Ok(0)
    ELSE IF total_limit = None THEN Raised
    ELSE IF total_limit[1] \div n >= 1 THEN Ok(total_limit[1] \div n) ELSE Ok(1)

SearchAllFailFast(names, res) ==
    IF \E i \in 1..Len(res) : IsRaised(res[i]) THEN <<>>
    ELSE [i \in 1..Len(names) |-> [name |-> names[i], results |-> res[i].val]]

\* search_all after the gather: one entry per task, in task order; a task
\* that raised maps to the empty list.
SearchAllCollect(names, res) ==
    [i \in 1..Len(names) |->
        [name |-> names[i],
         results |-> IF IsRaised(res[i]) THEN <<>> ELSE res[i].val]]

StampIfAbsent(r, source_name) ==
    IF r.data_source = Absent THEN [r EXCEPT !.data_source = source_name] ELSE r

\* result.metadata['data_source'] = source_name (the mapping is created
\* when the adapter gave none)
Stamp(r, source_name) == [r EXCEPT !.data_source = source_name]

\* the merge loop of search_aggregated over source_results.items()
RECURSIVE Flatten(_)
Flatten(source_results) ==
    IF source_results = <<>> THEN <<>>
    ELSE LET e == Head(source_results)
         IN  [i \in 1..Len(e.results) |-> Stamp(e.results[i], e.name)]
             \o Flatten(Tail(source_results))

\* title_key = result.title.lower().strip()
TitleKey(r) == strip(lower(r.title))

DedupKeepLast(results) ==
    LET u == SelectSeq([i \in 1..Len(results) |-> [r |-> results[i], i |-> i]],
                       LAMBDA p : \A j \in (p.i + 1)..Len(results) :
                                     TitleKey(results[j]) # TitleKey(p.r))
    IN  [i \in 1..Len(u) |-> u[i].r]

\* _deduplicate_results: the first result of each title key is kept
DeduplicateResults(results) ==
    LET F[i \in 0..Len(results)] ==
            IF i = 0 THEN [seen |-> {}, unique |-> <<>>]
            ELSE LET k == TitleKey(results[i])
                 IN  IF k \notin F[i - 1].seen
                     THEN [seen |-> F[i - 1].seen \cup {k},
                           unique |-> Append(F[i - 1].unique, results[i])]
                     ELSE F[i - 1]
    IN  F[Len(results)].unique

\* relevance_score (scaled by 100): title match 2.0, abstract match 1.0,
\* 0.5 per matching author, times the weight of metadata['data_source'].
TitleMatch == 20
AbstractMatch == 10
AuthorMatch == 5

SourceWeightByType(data_source) ==
    IF data_source = "web_search" THEN 10
    ELSE IF data_source \in {"local_knowledge", "local_papers"} THEN 12
    ELSE IF data_source \in {"zotero", "zotero_personal"} THEN 11
    ELSE 10

\* source_weights.get(data_source, 1.0), in tenths
SourceWeight(data_source) ==
    IF data_source = "web_search" THEN 10
    ELSE IF data_source = "local_knowledge" THEN 12
    ELSE IF data_source = "zotero" THEN 11
    ELSE 10

RelevanceScoreQueryNotLowered(result, q) ==
    LET t == IF Contains(q, lower(result.title)) THEN TitleMatch ELSE 0
        a == IF result.abstract # <<>> /\ Contains(q, lower(result.abstract))
             THEN AbstractMatch ELSE 0
        n == Cardinality({i \in 1..Len(result.authors) :
                            Contains(q, lower(result.authors[i]))})
    IN  (t + a + AuthorMatch * n) * SourceWeight(result.data_source)

RelevanceScoreAuthorOnce(result, q) ==
    LET query_lower == lower(q)
        t == IF Contains(query_lower, lower(result.title)) THEN TitleMatch ELSE 0
        a == IF result.abstract # <<>>
                /\ Contains(query_lower, lower(result.abstract))
             THEN AbstractMatch ELSE 0
        n == IF \E i \in 1..Len(result.authors) :
                    Contains(query_lower, lower(result.authors[i]))
             THEN 1 ELSE 0
    IN  (t + a + AuthorMatch * n) * SourceWeight(result.data_source)

\* relevance_score of _sort_results, times 100
RelevanceScore(result, q) ==
    LET query_lower == lower(q)
        t == IF Contains(query_lower, lower(result.title)) THEN TitleMatch ELSE 0
        a == IF result.abstract # <<>>
                /\ Contains(query_lower, lower(result.abstract))
             THEN AbstractMatch ELSE 0
        n == Cardinality({i \in 1..Len(result.authors) :
                            Contains(query_lower, lower(result.authors[i]))})
    IN  (t + a + AuthorMatch * n) * SourceWeight(result.data_source)

\* a stable sort on relevance_score, descending: x goes after every element
\* whose score is at least its own
StableSortDesc(results, q) ==
    LET F[i \in 0..Len(results)] ==
            IF i = 0 THEN <<>>
            ELSE LET x == results[i]
                     prev == F[i - 1]
                     k == Cardinality({j \in 1..Len(prev) :
                            RelevanceScore(prev[j], q) >= RelevanceScore(x, q)})
                 IN  SubSeq(prev, 1, k) \o <<x>> \o SubSeq(prev, k + 1, Len(prev))
    IN  F[Len(results)]

Reverse(xs) == [i \in 1..Len(xs) |-> xs[Len(xs) + 1 - i]]

SortResultsTiesReversed(results, q) ==
    StableSortDesc(Reverse(results), q)

\* sorted(results, key=relevance_score, reverse=True)
SortResults(results, q) ==
    StableSortDesc(results, q)

TruncateOneMore(results, total_limit) ==
    IF total_limit = None THEN results
    ELSE SubSeq(results, 1, IF total_limit[1] + 1 < Len(results) THEN total_limit[1] + 1
                            ELSE Len(results))

\* sorted_results[:total_limit], total_limit None or >= 0
Truncate(results, total_limit) ==
    IF total_limit = None THEN results
    ELSE SubSeq(results, 1, IF total_limit[1] < Len(results) THEN total_limit[1]
                            ELSE Len(results))

\* search_aggregated after search_all has returned source_results
Aggregate(source_results, q, total_limit) ==
    Truncate(SortResults(DeduplicateResults(Flatten(source_results)), q), total_limit)


\* ------------------------------------------------- EnhancedLiteratureAgent
\* A table (pandas DataFrame): its column names and its rows.  A row keeps
\* the two cells the agent reads, title and data_source; a cell of a column
\* the row's source table lacks is NaN.
NaN == <<"<NaN>">>
Row(t, ds) == [title |-> t, data_source |-> ds]
EmptyDF == [cols |-> {}, rows |-> <<>>]

\* DataFrame.empty: some axis has length 0
DFEmpty(df) == df.cols = {} \/ df.rows = <<>>

\* the columns of _search_result_to_record
RecordColumns ==
    {"title", "authors", "abstract", "url", "data_source", "publication_date",
     "publication_title", "tags", "collected_at"}

\* _search_result_to_record: data_source is metadata['data_source'], or
\* result.source when the metadata has none
SearchResultToRecord(r) ==
    Row(r.title, IF r.data_source = Absent THEN r.source ELSE r.data_source)

\* _collect_multi_source_data, given how search_aggregated ended: any
\* exception and an empty list both give an empty table
CollectMultiSourceData(agg) ==
    IF IsRaised(agg) THEN Ok(EmptyDF)
    ELSE IF agg.val = <<>> THEN Ok(EmptyDF)
    ELSE Ok([cols |-> RecordColumns,
             rows |-> [i \in 1..Len(agg.val) |-> SearchResultToRecord(agg.val[i])]])

\* Series.unique().tolist(): the distinct values in order of first appearance
Unique(xs) ==
    SelectSeq([i \in 1..Len(xs) |-> [x |-> xs[i], i |-> i]],
              LAMBDA p : \A j \in 1..(p.i - 1) : xs[j] # p.x)

UniqueValues(xs) == LET u == Unique(xs) IN [i \in 1..Len(u) |-> u[i].x]

\* pd.concat(all_data, ignore_index=True, sort=False)
RECURSIVE Concat(_)
Concat(dfs) ==
    IF dfs = <<>> THEN EmptyDF
    ELSE LET rest == Concat(Tail(dfs))
         IN  [cols |-> Head(dfs).cols \cup rest.cols,
              rows |-> Head(dfs).rows \o rest.rows]

\* df.drop_duplicates(subset=["title"], keep="first"): rows whose title
\* equals an earlier row's title go; pandas counts NaN equal to NaN
DropDuplicateTitles(rows) ==
    LET u == SelectSeq([i \in 1..Len(rows) |-> [r |-> rows[i], i |-> i]],
                       LAMBDA p : \A j \in 1..(p.i - 1) : rows[j].title # p.r.title)
    IN  [i \in 1..Len(u) |-> u[i].r]

\* _standardize_dataframe
StandardizeDataframe(df) ==
    LET withYear == IF "year" \in df.cols THEN df.cols
                    ELSE IF "publication_date" \in df.cols
                         THEN df.cols \cup {"year"} ELSE df.cols
        withId == withYear \cup {"id"}
    IN  [cols |-> withId,
         rows |-> IF "title" \in withId THEN DropDuplicateTitles(df.rows)
                  ELSE df.rows]

CalculateMetricsUniqueTitles(df, data_sources) ==
    [rows |-> Cardinality({df.rows[i].title : i \in 1..Len(df.rows)} \ {NaN}),
     data_sources_count |-> Len(data_sources),
     data_sources |-> data_sources]

\* _calculate_metrics: the row count and the data-source list
CalculateMetrics(df, data_sources) ==
    [rows |-> IF DFEmpty(df) THEN 0 ELSE Len(df.rows),
     data_sources_count |-> Len(data_sources),
     data_sources |-> data_sources]

\* nobel_df["data_source"] = "nobel_prize"
NobelFrame(table) ==
    [cols |-> table.cols \cup {"data_source"},
     rows |-> [i \in 1..Len(table.rows) |-> Row(table.rows[i].title, "nobel_prize")]]

BaselineStepListsFirst(b) ==
    IF IsRaised(b) THEN Ok([all_data |-> <<>>, data_sources_used |-> <<"nobel_prize">>])
    ELSE Ok([all_data |-> <<NobelFrame(b.val)>>,
             data_sources_used |-> <<"nobel_prize">>])

BaselineStepNoCatch(b) ==
    IF IsRaised(b) THEN Raised
    ELSE Ok([all_data |-> <<NobelFrame(b.val)>>,
             data_sources_used |-> <<"nobel_prize">>])

\* handle step 1: the baseline fetch inside its try/except; b is how
\* fetch_laureates()/normalize() ended
BaselineStep(b) ==
    IF IsRaised(b) THEN Ok([all_data |-> <<>>, data_sources_used |-> <<>>])
    ELSE Ok([all_data |-> <<NobelFrame(b.val)>>,
             data_sources_used |-> <<"nobel_prize">>])

\* handle step 2 after _collect_multi_source_data ended as `multi`: a
\* non-empty table is appended and its data_source values are listed; an
\* exception is logged and skipped
AddMultiSource(st, multi) ==
    IF IsOk(multi) /\ ~DFEmpty(multi.val)
    THEN [all_data |-> Append(st.all_data, multi.val),
          data_sources_used |->
              st.data_sources_used \o
              UniqueValues([i \in 1..Len(multi.val.rows) |->
                               multi.val.rows[i].data_source])]
    ELSE st

\* handle steps 3-8: concat, standardize, to_csv, metrics, report, result
HandleFinish(st, q) ==
    LET merged == IF st.all_data # <<>> THEN Concat(st.all_data) ELSE EmptyDF
        df == IF ~DFEmpty(merged) THEN StandardizeDataframe(merged) ELSE merged
        metrics == CalculateMetrics(df, st.data_sources_used)
    IN  [csv |-> Ok(df),
         report |-> Ok(metrics),
         result |-> Ok([metrics |-> metrics, query |-> q,
                        data_sources |-> st.data_sources_used])]

\* `if self.multi_source_manager and query`
WantsMultiSource(manager, q) == manager # "none" /\ q # None /\ q[1] # <<>>

\* -------------------------------------------------------- WebSearchSource
\* the backends, in the order search() creates their tasks
Backends == <<"semantic_scholar", "arxiv", "crossref">>

\* an item of a backend's response: its title and, where the backend
\* reports one, its citation count
Item(t, c) == [title |-> t, citation_count |-> c]

\* _parse_*_results: only the Semantic Scholar parser reads citationCount,
\* the arXiv parser strips the title
ParseItem(backend, item) ==
    [title |-> IF backend = "arxiv" THEN strip(item.title) ELSE item.title,
     citation_count |-> IF backend = "semantic_scholar"
                        THEN item.citation_count ELSE None,
     source |-> backend]

ParseResults(backend, items) ==
    [i \in 1..Len(items) |-> ParseItem(backend, items[i])]

\* a backend's answer: kind "200" (status 200), "status" (another status)
\* or "error" (the request raised), with the items of its body
Response(kind, items) == [kind |-> kind, items |-> items]

\* _search_semantic_scholar / _search_arxiv / _search_crossref: the parsed
\* items on status 200, [] on another status or on an exception
BackendSearch(backend, response) ==
    IF response.kind = "200" THEN Ok(ParseResults(backend, response.items))
    ELSE Ok(<<>>)

\* the tasks search() appends: one per enabled backend, each with limit // 3
WebTasks(enabled, limit) ==
    LET on == SelectSeq(Backends, LAMBDA b : b \in enabled)
    IN  [i \in 1..Len(on) |->
            [backend |-> on[i], limit |-> limit \div 3,
             response |-> Pending, out |-> Pending]]

RECURSIVE WebMergeFailFast(_)
WebMergeFailFast(tasks) ==
    IF \E i \in 1..Len(tasks) : tasks[i].response.kind # "200" THEN <<>>
    ELSE IF tasks = <<>> THEN <<>>
    ELSE Head(tasks).out.val \o WebMergeFailFast(Tail(tasks))

\* the loop over the gather's results: lists are appended in task order, an
\* exception is logged and skipped
RECURSIVE WebMerge(_)
WebMerge(tasks) ==
    IF tasks = <<>> THEN <<>>
    ELSE (IF IsOk(Head(tasks).out) THEN Head(tasks).out.val ELSE <<>>)
         \o WebMerge(Tail(tasks))

WebUniqueKeepsEmpty(results) ==
    LET F[i \in 0..Len(results)] ==
            IF i = 0 THEN [seen |-> {}, unique |-> <<>>]
            ELSE LET k == TitleKey(results[i])
                 IN  IF k \notin F[i - 1].seen
                     THEN [seen |-> F[i - 1].seen \cup {k},
                           unique |-> Append(F[i - 1].unique, results[i])]
                     ELSE F[i - 1]
    IN  F[Len(results)].unique

\* the loop of WebSearchSource._deduplicate_results: a result is kept when
\* its lower-cased, stripped title is not empty and was not seen before
WebUnique(results) ==
    LET F[i \in 0..Len(results)] ==
            IF i = 0 THEN [seen |-> {}, unique |-> <<>>]
            ELSE LET k == TitleKey(results[i])
                 IN  IF k \notin F[i - 1].seen /\ k # <<>>
                     THEN [seen |-> F[i - 1].seen \cup {k},
                           unique |-> Append(F[i - 1].unique, results[i])]
                     ELSE F[i - 1]
    IN  F[Len(results)].unique

\* x.citation_count or 0
Citations(r) == IF r.citation_count = None THEN 0 ELSE r.citation_count[1]

SortByCitationsTiesReversed(results) ==
    LET F[i \in 0..Len(results)] ==
            IF i = 0 THEN <<>>
            ELSE LET x == results[i]
                     prev == F[i - 1]
                     k == Cardinality({j \in 1..Len(prev) :
                            Citations(prev[j]) > Citations(x)})
                 IN  SubSeq(prev, 1, k) \o <<x>> \o SubSeq(prev, k + 1, Len(prev))
    IN  F[Len(results)]

\* unique_results.sort(key=lambda x: x.citation_count or 0, reverse=True):
\* stable, so x goes after every element counting at least as much
SortByCitations(results) ==
    LET F[i \in 0..Len(results)] ==
            IF i = 0 THEN <<>>
            ELSE LET x == results[i]
                     prev == F[i - 1]
                     k == Cardinality({j \in 1..Len(prev) :
                            Citations(prev[j]) >= Citations(x)})
                 IN  SubSeq(prev, 1, k) \o <<x>> \o SubSeq(prev, k + 1, Len(prev))
    IN  F[Len(results)]

\* WebSearchSource._deduplicate_results
WebDeduplicateResults(results) == SortByCitations(WebUnique(results))

\* search() after the gather: merge, de-duplicate and sort, results[:limit]
WebSearchReturn(tasks, limit) ==
    LET results == WebDeduplicateResults(WebMerge(tasks))
    IN  Ok(SubSeq(results, 1, Min({limit, Len(results)})))

\* ----------------------------------------------------------- ZoteroSource
\* the attributes DataSource.__init__ and ZoteroSource.__init__ assign
ZoteroAttrs ==
    {"name", "config", "logger", "api_key", "user_id", "group_id", "base_url"}

\* _parse_zotero_items
ParseZoteroItems(items) ==
    [i \in 1..Len(items) |-> [title |-> items[i].title, source |-> "zotero"]]

\* ZoteroSource.search: [] for an invalid config; inside the try block
\* ClientTimeout(total=self.timeout) is evaluated first, and an attribute
\* that was never assigned raises AttributeError, which the except clause
\* turns into []; else the request goes to the users/ or groups/ endpoint
\* and the items are parsed on status 200
ZoteroSearch(cfg, server) ==
    IF ~ValidateConfig("zotero", cfg) THEN [request |-> None, ret |-> Ok(<<>>)]
    ELSE IF "timeout" \notin ZoteroAttrs THEN [request |-> None, ret |-> Ok(<<>>)]
    ELSE [request |-> Some(IF cfg.user_id # None THEN "users" ELSE "groups"),
          ret |-> IF server.kind = "200" THEN Ok(ParseZoteroItems(server.items))
                  ELSE Ok(<<>>)]

\* --------------------------------------------------- LocalKnowledgeSource
GetKnowledgeRetrieverNoCache(cached, built, constructs) ==
    IF constructs
    THEN [retriever |-> Some(built + 1), got |-> Some(built + 1), built |-> built + 1]
    ELSE [retriever |-> cached, got |-> None, built |-> built]

\* _get_knowledge_retriever: the cached instance when there is one; else
\* KnowledgeRetriever() is constructed, cached and handed out, or, when the
\* import or the constructor raises, None is handed out and nothing cached.
\* An instance is named by the number of the construction that made it.
GetKnowledgeRetriever(cached, built, constructs) ==
    IF cached # None THEN [retriever |-> cached, got |-> cached, built |-> built]
    ELSE IF constructs
    THEN [retriever |-> Some(built + 1), got |-> Some(built + 1), built |-> built + 1]
    ELSE [retriever |-> None, got |-> None, built |-> built]

\* search, get_by_id and add_document once the retriever was asked for:
\* without one they return [], None and False; with one, what the
\* retriever's method gives, or the same defaults when it raises.
\* `answer` is the retriever's answer: Raised, or Ok(titles found).
LocalCall(op, got, answer) ==
    IF op = "search"
    THEN IF got = None \/ IsRaised(answer) THEN Ok(<<>>)
         ELSE Ok([i \in 1..Len(answer.val) |->
                    [title |-> answer.val[i], source |-> "local_knowledge"]])
    ELSE IF op = "get_by_id"
    THEN IF got = None \/ IsRaised(answer) \/ answer.val = <<>> THEN Ok(None)
         ELSE Ok(Some([title |-> answer.val[1], source |-> "local_knowledge"]))
    ELSE IF got = None \/ IsRaised(answer) THEN Ok("False") ELSE Ok("True")

\* ------------------------------------------------------------ WritingAgent
\* an exception raised with a message
Raise(e) == [st |-> "raised", val |-> e]

\* a Python value that is a str, and one that is not (None)
Str(t) == [type |-> "str", text |-> t]
NotAStr == [type |-> "NoneType", text |-> <<>>]

\* isinstance(v, str) and v.strip()
NonBlank(v) == v.type = "str" /\ strip(v.text) # <<>>

DefaultMaxRetries == 3

\* the values of self.last_llm_error
NotInjected == [kind |-> "LLM client not injected", attempt |-> 0, of |-> 0, msg |-> ""]
EmptyResult(le) ==
    IF le # None THEN [kind |-> "Empty result from LLM", attempt |-> 0, of |-> 0, msg |-> le[1]]
    ELSE [kind |-> "LLM returned empty result", attempt |-> 0, of |-> 0, msg |-> ""]
AttemptFailed(k, n, e) == [kind |-> "Attempt failed", attempt |-> k, of |-> n, msg |-> e]

\* build_prompt: a heading that holds the theme
BuildPrompt(theme) == <<"#">> \o theme

\* _generate_fallback_content: a report template under a heading with the
\* theme read off the prompt; never empty
GenerateFallbackContent(prompt) ==
    <<"#">> \o (IF Contains(<<"N">>, prompt) THEN <<"N">> ELSE <<"D">>) \o <<"r">>

\* call_llm up to its loop: without a client it returns the fallback at
\* once; `for attempt in range(max_retries + 1)` over an empty range falls
\* through to `return None`
CallLlmEnter(w, prompt, max_retries) ==
    LET c == [w EXCEPT !.prompt = prompt, !.max_retries = max_retries,
                       !.attempt = 0, !.results = <<>>]
    IN  IF w.llm = None
        THEN [c EXCEPT !.last_llm_error = Some(NotInjected),
                       !.ret = Ok(Str(GenerateFallbackContent(prompt))),
                       !.pc = "returned"]
        ELSE IF max_retries + 1 <= 0
        THEN [c EXCEPT !.ret = Ok(NotAStr), !.pc = "returned"]
        ELSE [c EXCEPT !.pc = "loop"]

CallLlmStepRetryOnceMore(w, out) ==
    LET c == [w EXCEPT !.results = Append(@, out)]
        last == w.attempt = w.max_retries + 1
        fallback == Ok(Str(GenerateFallbackContent(w.prompt)))
    IN  IF IsRaised(out)
        THEN LET e == [c EXCEPT !.last_llm_error =
                          Some(AttemptFailed(w.attempt + 1, w.max_retries + 1, out.val))]
             IN  IF last THEN [e EXCEPT !.ret = fallback, !.pc = "returned"]
                 ELSE [e EXCEPT !.attempt = @ + 1]
        ELSE IF NonBlank(out.val)
        THEN [c EXCEPT !.last_llm_error = None, !.ret = Ok(out.val), !.pc = "returned"]
        ELSE LET e == [c EXCEPT !.last_llm_error = Some(EmptyResult(w.llm[1].last_error))]
             IN  IF last THEN [e EXCEPT !.ret = fallback, !.pc = "returned"]
                 ELSE [e EXCEPT !.attempt = @ + 1]

\* one iteration of call_llm's loop; out is how self.llm.generate ended
CallLlmStep(w, out) ==
    LET c == [w EXCEPT !.results = Append(@, out)]
        last == w.attempt = w.max_retries
        fallback == Ok(Str(GenerateFallbackContent(w.prompt)))
    IN  IF IsRaised(out)
        THEN LET e == [c EXCEPT !.last_llm_error =
                          Some(AttemptFailed(w.attempt + 1, w.max_retries + 1, out.val))]
             IN  IF last THEN [e EXCEPT !.ret = fallback, !.pc = "returned"]
                 ELSE [e EXCEPT !.attempt = @ + 1]
        ELSE IF NonBlank(out.val)
        THEN [c EXCEPT !.last_llm_error = None, !.ret = Ok(out.val), !.pc = "returned"]
        ELSE LET e == [c EXCEPT !.last_llm_error = Some(EmptyResult(w.llm[1].last_error))]
             IN  IF last THEN [e EXCEPT !.ret = fallback, !.pc = "returned"]
                 ELSE [e EXCEPT !.attempt = @ + 1]

\* the default draft handle builds from the CSV's metrics
DefaultDraft == <<"d">>

\* handle after call_llm returned: the returned text replaces the default
\* draft when it is a non-blank str, the draft is written, the result built
WritingHandleFinish(w) ==
    LET llm_text == w.ret.val
        llm_used == NonBlank(llm_text)
    IN  [w EXCEPT !.result = Ok([draft |-> IF llm_used THEN llm_text.text ELSE DefaultDraft,
                                 llm |-> [used |-> llm_used,
                                          error |-> w.last_llm_error]])]

\* ------------------------------------------------------------ ErrorHandler
\* a dict as a set of <<key, value>> pairs; {**a, **b}
Keys(dict) == {kv[1] : kv \in dict}
Merge(a, b) == {kv \in a : kv[1] \notin Keys(b)} \cup b

\* the classes an exception class inherits from (itself included)
Bases(cls) ==
    CASE cls = "ConnectionError" -> {"ConnectionError", "OSError", "Exception"}
      [] cls = "FileNotFoundError" -> {"FileNotFoundError", "OSError", "Exception"}
      [] cls = "OSError" -> {"OSError", "Exception"}
      [] cls = "ValueError" -> {"ValueError", "Exception"}
      [] cls = "RuntimeError" -> {"RuntimeError", "Exception"}
      [] cls = "ValidationError" -> {"ValidationError", "MCPError", "Exception"}
      [] cls = "LLMError" -> {"LLMError", "MCPError", "Exception"}
      [] OTHER -> {cls, "Exception"}

IsInstance(error, classes) == Bases(error.cls) \cap classes # {}

\* an exception object: id tells one object from another; category,
\* severity and details are the attributes MCPError.__init__ sets
StandardException(cls, message) ==
    [id |-> 1, cls |-> cls, message |-> message, category |-> Absent,
     severity |-> Absent, details |-> {}]

MCPErrorObject(id, cls, message, category, severity, details) ==
    [id |-> id, cls |-> cls, message |-> message, category |-> category,
     severity |-> severity, details |-> details]

\* MCPError.to_dict plus error_info["context"] = context
MCPErrorInfo(error, context) ==
    [message |-> error.message, category |-> error.category,
     severity |-> error.severity, details |-> error.details,
     context |-> Some(context)]

\* _convert_standard_exception: category and severity by exception type
ConvertStandardException(error, context) ==
    LET network == IsInstance(error, {"ConnectionError", "TimeoutError"})
        file_io == IsInstance(error, {"FileNotFoundError", "PermissionError", "OSError"})
        validation == IsInstance(error, {"ValueError", "TypeError"})
    IN  [message |-> error.message,
         category |-> IF network THEN "network" ELSE IF file_io THEN "file_io"
                      ELSE IF validation THEN "validation" ELSE "system",
         severity |-> IF ~network /\ ~file_io /\ validation THEN "low" ELSE "medium",
         details |-> Merge({<<"original_type", error.cls>>}, context),
         context |-> None]

HandleErrorReraisesOriginal(error, ctx, reraise) ==
    LET context == IF ctx = None \/ ctx[1] = {} THEN {} ELSE ctx[1]
    IN  IF IsInstance(error, {"MCPError"})
        THEN IF reraise THEN Raise(error) ELSE Ok(MCPErrorInfo(error, context))
        ELSE IF reraise THEN Raise(error)
             ELSE Ok(ConvertStandardException(error, context))

\* handle_error(error, context, reraise)
HandleError(error, ctx, reraise) ==
    LET context == IF ctx = None \/ ctx[1] = {} THEN {} ELSE ctx[1]
    IN  IF IsInstance(error, {"MCPError"})
        THEN IF reraise THEN Raise(error) ELSE Ok(MCPErrorInfo(error, context))
        ELSE IF reraise
             THEN Raise(MCPErrorObject(error.id + 1, "MCPError", error.message,
                                       "system", "high",
                                       {<<"original_type", error.cls>>}))
             ELSE Ok(ConvertStandardException(error, context))

\* ------------------------------------------------------------------- state
VARIABLES
    sources,           \* self.sources: registered [name, type], registration order
    mgr_pc,            \* "idle" | "gather" (awaiting asyncio.gather) | "returned" | "again"
    api,               \* the manager method in flight: "search_all" | "search_aggregated"
    query,             \* its query argument
    total_limit,       \* search_aggregated's total_limit: Some(n) or None
    limit_per_source,  \* the limit handed to every source.search
    source_names,      \* search_all's source_names, one per task
    gathered,          \* per task: Pending, Raised or Ok(list the source returned)
    ret,               \* what the manager call returned (or that it raised)
    first_ret,         \* the return of the first aggregation, once it was repeated
    multi_source_manager, \* the agent's manager: "none" or "manager"
    h_pc,              \* handle: "idle" | "collect" (awaiting the search) | "done"
    task,              \* handle's task: [query, limit, sources], each Some(v) or None
    baseline,          \* how the baseline fetch ended: Raised or Ok(table)
    local,             \* handle's all_data and data_sources_used
    agg_calls,         \* calls of search_aggregated made by handle
    csv,               \* the table written to laureates_prizes.csv
    report,            \* the metrics written to collection_report.md
    result,            \* what handle returned (or that it raised)
    reg,               \* the manager's construction and its last registry call
    web,               \* a WebSearchSource and its search call
    zot,               \* a ZoteroSource and its search call
    lk,                \* a LocalKnowledgeSource, its retriever and its last call
    wa,                \* a WritingAgent and its call_llm / handle call
    eh                 \* an ErrorHandler's handle_error call

mgr_vars == <<sources, mgr_pc, api, query, total_limit, limit_per_source,
              source_names, gathered, ret, first_ret>>
agent_vars == <<multi_source_manager, h_pc, task, baseline, local, agg_calls,
                csv, report, result>>
adapter_vars == <<reg, web, zot, lk>>
other_vars == <<wa, eh>>
vars == <<mgr_vars, agent_vars, adapter_vars, other_vars>>

\* ------------------------------------------------------------- input pools
NoText == <<>>

\* configuration entries, name -> mapping: a web search source, a local
\* knowledge base whose path exists, an unknown type, a Zotero library
\* without an API key
ConfigEntries ==
    { [name |-> "A",
       value |-> SourceConfig(Some("web_search"), <<>>, None, None, FALSE)],
      [name |-> "local_knowledge",
       value |-> SourceConfig(Some("local_knowledge"), <<>>, None, None, TRUE)],
      [name |-> "scholar",
       value |-> SourceConfig(Some("google_scholar"), <<>>, None, None, FALSE)],
      [name |-> "library",
       value |-> SourceConfig(Some("zotero"), <<>>, Some(<<"1">>), None, FALSE)] }

\* a config mapping: entries with distinct names, in insertion order
Configs ==
    {c \in SeqUpTo(ConfigEntries, Cardinality(ConfigEntries)) :
        \A i, j \in 1..Len(c) : i # j => c[i].name # c[j].name}

Queries == {<<"a">>, <<"B">>}

Limits == {Some(n) : n \in 0..MaxLimit}

\* what the sources return when the manager is called directly
MgrResults ==
    { SearchResult(<<"a">>, <<>>, NoText, "arxiv"),
      SearchResult(<<"A", " ">>, << <<"A">> >>, <<"a">>, "crossref"),
      [SearchResult(<<"b">>, <<>>, NoText, "arxiv") EXCEPT !.data_source = "zotero"],
      SearchResult(<<" ">>, <<>>, NoText, "crossref") }

\* what the sources return when the agent runs the search
AgentResults ==
    { SearchResult(<<"a">>, <<>>, NoText, "arxiv"),
      SearchResult(<<"b">>, <<>>, NoText, "arxiv") }

\* the tasks handed to handle: no query, an empty one, a query; the limit
\* given as a number or as None; task.get("sources") is None
Tasks ==
    {[query |-> q, limit |-> l, sources |-> None] :
        q \in {None, Some(NoText), Some(<<"a">>)}, l \in Limits \cup {None}}

\* tasks with a query that name the data sources to use in task['sources']
TasksNamingSources ==
    {[query |-> Some(<<"a">>), limit |-> l, sources |-> Some(s)] :
        l \in Limits \cup {None},
        s \in {<<"A">>, <<"local_knowledge">>, <<"A", "local_knowledge">>}}

\* the baseline table normalize(fetch_laureates()) yields: with a title
\* column (a cell may be NaN) or without one
BaselineTables ==
    {[cols |-> {"id", "year", "category", "title"}, rows |-> rs] :
        rs \in SeqUpTo({Row(<<"a">>, Absent), Row(<<"b">>, Absent), Row(NaN, Absent)},
                       MaxBaseRows)}
    \cup
    {[cols |-> {"id", "year", "category"}, rows |-> rs] :
        rs \in SeqUpTo({Row(NaN, Absent)}, MaxBaseRows)}

\* a source's search ends by raising or by returning a list
Outcomes(pool, n) == {Raised} \cup {Ok(l) : l \in SeqUpTo(pool, n)}

RECURSIVE Returned(_)
Returned(res) ==
    IF res = <<>> THEN 0 ELSE Len(Head(res).val) + Returned(Tail(res))

Names(srcs) == [i \in 1..Len(srcs) |-> srcs[i].name]

AllDone(res) == \A i \in 1..Len(res) : res[i] # Pending

\* -------------------------------------------------------------------- Init
\* the manager after MultiSourceManager(config), no call made yet
MgrIdle ==
    /\ mgr_pc = "idle"
    /\ api = "none"
    /\ query = NoText
    /\ total_limit = None
    /\ limit_per_source = 0
    /\ source_names = <<>>
    /\ gathered = <<>>
    /\ ret = Pending
    /\ first_ret = Pending

AgentIdle ==
    /\ task = [query |-> None, limit |-> None, sources |-> None]
    /\ baseline = Pending
    /\ local = [all_data |-> <<>>, data_sources_used |-> <<>>]
    /\ agg_calls = 0
    /\ csv = Pending
    /\ report = Pending
    /\ result = Pending

\* no registry call made, no adapter of its own in use
RegIdle ==
    [config |-> <<>>, ctor |-> Pending, op |-> "none", name |-> "", type |-> "",
     cfg |-> NotADict("none"), before |-> <<>>, ret |-> Pending, probe |-> <<>>]

WebIdle ==
    [enabled |-> {}, pc |-> "absent", query |-> <<>>, limit |-> 0,
     tasks |-> <<>>, ret |-> Pending]

ZotIdle ==
    [cfg |-> NotADict("none"), pc |-> "absent", request |-> None,
     server |-> Pending, ret |-> Pending]

LkIdle ==
    [retriever |-> None, built |-> 0, failed |-> 0, calls |-> 0, op |-> "none",
     before |-> None, got |-> None, ret |-> Pending]

AdaptersIdle ==
    /\ reg = RegIdle
    /\ web = WebIdle
    /\ zot = ZotIdle
    /\ lk = LkIdle

\* no WritingAgent and no ErrorHandler in use
WaIdle ==
    [llm |-> None, api |-> "none", prompt |-> <<>>, max_retries |-> 0,
     attempt |-> 0, results |-> <<>>, last_llm_error |-> None, pc |-> "absent",
     ret |-> Pending, result |-> Pending]

EhIdle ==
    [error |-> StandardException("", ""), context |-> None, reraise |-> FALSE,
     pc |-> "absent", out |-> Pending]

OthersIdle ==
    /\ wa = WaIdle
    /\ eh = EhIdle

\* a manager used on its own
MgrInit ==
    /\ sources \in {InitializeSources(c).val : c \in Configs}
    /\ MgrIdle
    /\ multi_source_manager = "none"
    /\ h_pc = "absent"
    /\ AgentIdle
    /\ AdaptersIdle
    /\ OthersIdle

\* EnhancedLiteratureAgent(base_dir, multi_source_config): the manager is
\* built only for a non-empty config; LiteratureAgent passes None
AgentInit ==
    /\ \E cfg \in {None} \cup {Some(c) : c \in Configs} :
          IF cfg # None /\ cfg[1] # <<>>
          THEN /\ multi_source_manager = "manager"
               /\ sources = InitializeSources(cfg[1]).val
          ELSE /\ multi_source_manager = "none"
               /\ sources = <<>>
    /\ MgrIdle
    /\ h_pc = "idle"
    /\ AgentIdle
    /\ AdaptersIdle
    /\ OthersIdle

\* ----------------------------------------------------------------- actions
\* search_all up to `await asyncio.gather(*tasks, return_exceptions=True)`;
\* with no task the gather is already done and search_all returns {}.
BeginSearchAll(q, lps) ==
    /\ query' = q
    /\ limit_per_source' = lps
    /\ source_names' = Names(sources)
    /\ gathered' = [i \in 1..Len(sources) |-> Pending]
    /\ mgr_pc' = IF sources = <<>> THEN "returned" ELSE "gather"

\* entry of search_all(query, limit_per_source)
CallSearchAll(q, lps) ==
    /\ mgr_pc = "idle"
    /\ h_pc = "absent"
    /\ api' = "search_all"
    /\ BeginSearchAll(q, lps)
    /\ ret' = IF sources = <<>> THEN Ok(<<>>) ELSE Pending
    /\ UNCHANGED <<sources, total_limit, first_ret, agent_vars, adapter_vars, other_vars>>

\* search_aggregated(query, total_limit) up to the gather inside search_all;
\* it raises at once when the per-source limit cannot be computed
EnterSearchAggregated(q, tl) ==
    LET lps == LimitPerSource(tl, Len(sources))
    IN  /\ api' = "search_aggregated"
        /\ total_limit' = tl
        /\ IF IsRaised(lps)
           THEN /\ query' = q
                /\ mgr_pc' = "returned"
                /\ ret' = Raised
                /\ UNCHANGED <<limit_per_source, source_names, gathered>>
           ELSE /\ BeginSearchAll(q, lps.val)
                /\ ret' = IF sources = <<>> THEN Ok(Aggregate(<<>>, q, tl)) ELSE Pending
        /\ UNCHANGED <<sources, first_ret>>

\* a direct call of search_aggregated
CallSearchAggregated(q, tl) ==
    /\ mgr_pc = "idle"
    /\ h_pc = "absent"
    /\ EnterSearchAggregated(q, tl)
    /\ UNCHANGED <<agent_vars, adapter_vars, other_vars>>

\* task i of the gather ends: source.search returned a list or raised
SourceComplete(i, out) ==
    /\ mgr_pc = "gather"
    /\ i \in 1..Len(gathered)
    /\ gathered[i] = Pending
    /\ gathered' = [gathered EXCEPT ![i] = out]
    /\ UNCHANGED <<sources, mgr_pc, api, query, total_limit, limit_per_source,
                   source_names, ret, first_ret, agent_vars, adapter_vars, other_vars>>

\* the merge loop stamps the results in place: the lists the sources
\* returned hold the same objects
StampInPlace(names, res) ==
    [i \in 1..Len(res) |->
        IF IsRaised(res[i]) THEN res[i]
        ELSE Ok([k \in 1..Len(res[i].val) |-> Stamp(res[i].val[k], names[i])])]

ResumeSearchAllOnlyRegistered ==
    /\ mgr_pc = "gather"
    /\ api = "search_all"
    /\ AllDone(gathered)
    /\ ret' = Ok(SelectSeq(SearchAllCollect(source_names, gathered),
                           LAMBDA e : \E i \in 1..Len(sources) : sources[i].name = e.name))
    /\ mgr_pc' = "returned"
    /\ UNCHANGED <<sources, api, query, total_limit, limit_per_source,
                   source_names, gathered, first_ret, agent_vars, adapter_vars, other_vars>>

\* search_all resumes after the gather and returns its mapping
ResumeSearchAll ==
    /\ mgr_pc = "gather"
    /\ api = "search_all"
    /\ AllDone(gathered)
    /\ ret' = Ok(SearchAllCollect(source_names, gathered))
    /\ mgr_pc' = "returned"
    /\ UNCHANGED <<sources, api, query, total_limit, limit_per_source,
                   source_names, gathered, first_ret, agent_vars, adapter_vars, other_vars>>

\* search_aggregated after the gather: merge, de-duplicate, sort, truncate
LeaveSearchAggregated ==
    /\ ret' = Ok(Aggregate(SearchAllCollect(source_names, gathered), query, total_limit))
    /\ gathered' = StampInPlace(source_names, gathered)
    /\ UNCHANGED <<sources, api, query, total_limit, limit_per_source, source_names>>

\* a direct call of search_aggregated resumes and returns
ResumeSearchAggregated ==
    /\ mgr_pc = "gather"
    /\ api = "search_aggregated"
    /\ h_pc = "absent"
    /\ AllDone(gathered)
    /\ LeaveSearchAggregated
    /\ mgr_pc' = "returned"
    /\ UNCHANGED <<first_ret, agent_vars, adapter_vars, other_vars>>

\* the aggregation run once more over the same per-source result objects
AggregateAgain ==
    /\ mgr_pc = "returned"
    /\ api = "search_aggregated"
    /\ h_pc = "absent"
    /\ IsOk(ret)
    /\ first_ret' = ret
    /\ LeaveSearchAggregated
    /\ mgr_pc' = "again"
    /\ UNCHANGED <<agent_vars, adapter_vars, other_vars>>

\* handle's tail: the artifacts are written and the result is returned
Finished(st, q) ==
    LET out == HandleFinish(st, q)
    IN  /\ local' = st
        /\ csv' = out.csv
        /\ report' = out.report
        /\ result' = out.result
        /\ h_pc' = "done"

\* handle(task) from its entry to its first suspension or, when nothing
\* suspends, to its return; b is how the baseline fetch ends
HandleStart(t, b) ==
    /\ h_pc = "idle"
    /\ mgr_pc = "idle"
    /\ task' = t
    /\ baseline' = b
    /\ UNCHANGED <<multi_source_manager, adapter_vars, other_vars>>
    /\ LET s1 == BaselineStep(b)
       IN  IF IsRaised(s1)
           THEN /\ result' = Raised
                /\ h_pc' = "done"
                /\ UNCHANGED <<mgr_vars, local, agg_calls, csv, report>>
           ELSE IF ~WantsMultiSource(multi_source_manager, t.query)
           THEN /\ Finished(s1.val, t.query)
                /\ UNCHANGED <<mgr_vars, agg_calls>>
           ELSE /\ agg_calls' = agg_calls + 1
                /\ EnterSearchAggregated(t.query[1], t.limit)
                /\ IF mgr_pc' = "gather"
                   THEN /\ h_pc' = "collect"
                        /\ local' = s1.val
                        /\ UNCHANGED <<csv, report, result>>
                   ELSE Finished(AddMultiSource(s1.val, CollectMultiSourceData(ret')),
                                 t.query)

\* handle resumes when the gather is done: search_aggregated returns,
\* _collect_multi_source_data builds its table, handle runs to its return
HandleResume ==
    /\ h_pc = "collect"
    /\ mgr_pc = "gather"
    /\ AllDone(gathered)
    /\ LeaveSearchAggregated
    /\ mgr_pc' = "returned"
    /\ Finished(AddMultiSource(local, CollectMultiSourceData(ret')), task.query)
    /\ UNCHANGED <<first_ret, multi_source_manager, task, baseline, agg_calls,
                   adapter_vars, other_vars>>

\* ---------------------------------------------------------- specifications
Next ==
    \/ \E q \in Queries, lps \in 0..MaxLimit : CallSearchAll(q, lps)
    \/ \E q \in Queries, tl \in Limits : CallSearchAggregated(q, tl)
    \/ \E i \in 1..Len(gathered),
          out \in Outcomes(MgrResults, MaxResults - Returned(gathered)) :
            SourceComplete(i, out)
    \/ ResumeSearchAll
    \/ ResumeSearchAggregated
    \/ AggregateAgain

Spec == MgrInit /\ [][Next]_vars

NextAgent ==
    \/ \E t \in Tasks, b \in {Raised} \cup {Ok(tb) : tb \in BaselineTables} :
            HandleStart(t, b)
    \/ \E i \in 1..Len(gathered),
          out \in Outcomes(AgentResults, MaxResults - Returned(gathered)) :
            SourceComplete(i, out)
    \/ HandleResume

SpecAgent == AgentInit /\ [][NextAgent]_vars

\* the agent's runs in which a successful baseline fetch yields rows
NextAgentRows ==
    \/ \E t \in Tasks,
          b \in {Raised} \cup {Ok(tb) : tb \in {x \in BaselineTables : x.rows # <<>>}} :
            HandleStart(t, b)
    \/ \E i \in 1..Len(gathered),
          out \in Outcomes(AgentResults, MaxResults - Returned(gathered)) :
            SourceComplete(i, out)
    \/ HandleResume

SpecAgentRows == AgentInit /\ [][NextAgentRows]_vars

\* the agent's runs on tasks that name data sources
NextAgentSources ==
    \/ \E t \in TasksNamingSources,
          b \in {Raised} \cup {Ok(tb) : tb \in {x \in BaselineTables : x.rows = <<>>}} :
            HandleStart(t, b)
    \/ \E i \in 1..Len(gathered),
          out \in Outcomes(AgentResults, MaxResults - Returned(gathered)) :
            SourceComplete(i, out)
    \/ HandleResume

SpecAgentSources == AgentInit /\ [][NextAgentSources]_vars

\* ------------------------------------------------------- the registry
\* configuration entries a caller may hand to the constructor: the ones
\* above, an entry without 'type', and a value that is no mapping
RegistryEntries ==
    ConfigEntries \cup
    { [name |-> "untyped",
       value |-> SourceConfig(None, <<"k">>, Some(<<"1">>), None, TRUE)],
      [name |-> "broken", value |-> NotADict("str")] }

MaxEntries == 2    \* most entries of a constructor's config

RegistryConfigs ==
    {c \in SeqUpTo(RegistryEntries, MaxEntries) :
        \A i, j \in 1..Len(c) : i # j => c[i].name # c[j].name}

\* the arguments of add_source and remove_source
SourceNames == {"A"}
SourceTypeArgs == source_types \cup {"google_scholar"}
SourceConfigArgs ==
    { NotADict("none"), NotADict("str"),
      SourceConfig(None, <<"k">>, Some(<<"1">>), None, TRUE),
      SourceConfig(None, <<>>, Some(<<"1">>), None, FALSE) }

\* MultiSourceManager(config): _initialize_sources runs in the constructor,
\* which returns the manager or raises
RegistryInit ==
    /\ \E c \in RegistryConfigs :
          /\ reg = [RegIdle EXCEPT !.config = c, !.ctor = InitializeSources(c)]
          /\ sources = InitializeSources(c).val
    /\ MgrIdle
    /\ multi_source_manager = "none"
    /\ h_pc = "absent"
    /\ AgentIdle
    /\ web = WebIdle
    /\ zot = ZotIdle
    /\ lk = LkIdle
    /\ OthersIdle

\* a registry call on a constructed manager
RegistryCall(op, name, type, cfg, probe, out) ==
    /\ IsOk(reg.ctor)
    /\ mgr_pc = "idle"
    /\ reg' = [reg EXCEPT !.op = op, !.name = name, !.type = type, !.cfg = cfg,
                          !.before = sources, !.probe = probe, !.ret = out.ret]
    /\ sources' = out.sources
    /\ UNCHANGED <<mgr_pc, api, query, total_limit, limit_per_source,
                   source_names, gathered, ret, first_ret, agent_vars, web, zot, lk, other_vars>>

AddSource(name, type, cfg) ==
    RegistryCall("add_source", name, type, cfg, <<>>,
                 add_source(sources, name, type, cfg))

RemoveSource(name) ==
    RegistryCall("remove_source", name, "", NotADict("none"), <<>>,
                 remove_source(sources, name))

\* health_check(); probe tells, per source, whether its trivial search
\* returns or raises
HealthCheck(probe) ==
    RegistryCall("health_check", "", "", NotADict("none"), probe,
                 [sources |-> sources, ret |-> health_check(sources, probe)])

NextRegistry ==
    \/ \E name \in SourceNames, type \in SourceTypeArgs, cfg \in SourceConfigArgs :
            AddSource(name, type, cfg)
    \/ \E name \in SourceNames : RemoveSource(name)
    \/ \E probe \in [1..Len(sources) -> {"returns", "raises"}] : HealthCheck(probe)

SpecRegistry == RegistryInit /\ [][NextRegistry]_vars

\* ------------------------------------------------- WebSearchSource runs
\* the items a backend's body may hold
WebItems ==
    { Item(<<"A", " ">>, Some(2)), Item(<<"b">>, Some(0)),
      Item(<<" ">>, Some(2)), Item(<<"c">>, Some(1)) }

\* items in the answers received so far
RECURSIVE Answered(_)
Answered(tasks) ==
    IF tasks = <<>> THEN 0
    ELSE (IF Head(tasks).response = Pending THEN 0
          ELSE Len(Head(tasks).response.items)) + Answered(Tail(tasks))

\* the answers a backend call may get: a body with status 200 or with
\* another status, or no answer at all
Responses(n) ==
    {Response(k, items) : k \in {"200", "status"}, items \in SeqUpTo(WebItems, n)}
    \cup {Response("error", <<>>)}

\* WebSearchSource(config): the *_enabled flags of the merged config
WebInit ==
    /\ \E en \in SUBSET {Backends[i] : i \in 1..Len(Backends)} :
          web = [WebIdle EXCEPT !.enabled = en, !.pc = "idle"]
    /\ sources = <<>>
    /\ MgrIdle
    /\ multi_source_manager = "none"
    /\ h_pc = "absent"
    /\ AgentIdle
    /\ reg = RegIdle
    /\ zot = ZotIdle
    /\ lk = LkIdle
    /\ OthersIdle

\* search(query, limit) up to `await asyncio.gather(*tasks, ...)`; with no
\* task the gather is done at once
WebSearch(q, limit) ==
    /\ web.pc = "idle"
    /\ LET tasks == WebTasks(web.enabled, limit)
       IN  web' = [web EXCEPT !.query = q, !.limit = limit, !.tasks = tasks,
                              !.pc = IF tasks = <<>> THEN "returned" ELSE "gather",
                              !.ret = IF tasks = <<>>
                                      THEN WebSearchReturn(tasks, limit)
                                      ELSE Pending]
    /\ UNCHANGED <<mgr_vars, agent_vars, reg, zot, lk, other_vars>>

\* the backend call of task i ends, whatever the other calls do
BackendComplete(i, response) ==
    /\ web.pc = "gather"
    /\ i \in 1..Len(web.tasks)
    /\ web.tasks[i].response = Pending
    /\ web' = [web EXCEPT !.tasks[i].response = response,
                          !.tasks[i].out = BackendSearch(web.tasks[i].backend, response)]
    /\ UNCHANGED <<mgr_vars, agent_vars, reg, zot, lk, other_vars>>

\* search() resumes when every call has ended and returns
WebSearchResume ==
    /\ web.pc = "gather"
    /\ \A i \in 1..Len(web.tasks) : web.tasks[i].response # Pending
    /\ web' = [web EXCEPT !.pc = "returned",
                          !.ret = WebSearchReturn(web.tasks, web.limit)]
    /\ UNCHANGED <<mgr_vars, agent_vars, reg, zot, lk, other_vars>>

NextWeb ==
    \/ \E limit \in 0..MaxLimit : WebSearch(<<"a">>, limit)
    \/ \E i \in 1..Len(web.tasks),
          response \in Responses(MaxResults - Answered(web.tasks)) :
            BackendComplete(i, response)
    \/ WebSearchResume

SpecWeb == WebInit /\ [][NextWeb]_vars

\* ---------------------------------------------------- ZoteroSource runs
\* configs of a ZoteroSource: with or without API key, user id, group id
ZoteroConfigs ==
    {SourceConfig(Some("zotero"), k, u, g, FALSE) :
        k \in {<<>>, <<"k">>}, u \in {None, Some(<<"1">>)}, g \in {None, Some(<<"2">>)}}

\* what the Zotero API would answer
ZoteroResponses ==
    {Response(k, items) :
        k \in {"200", "status"},
        items \in SeqUpTo({Item(<<"a">>, None), Item(<<"b">>, None)}, MaxResults)}
    \cup {Response("error", <<>>)}

\* ZoteroSource(config)
ZoteroInit ==
    /\ \E cfg \in ZoteroConfigs : zot = [ZotIdle EXCEPT !.cfg = cfg, !.pc = "idle"]
    /\ sources = <<>>
    /\ MgrIdle
    /\ multi_source_manager = "none"
    /\ h_pc = "absent"
    /\ AgentIdle
    /\ reg = RegIdle
    /\ web = WebIdle
    /\ lk = LkIdle
    /\ OthersIdle

\* search(query, limit), run to its return against a server that would
\* give the answer `server`
ZoteroSearchCall(server) ==
    /\ zot.pc = "idle"
    /\ LET out == ZoteroSearch(zot.cfg, server)
       IN  zot' = [zot EXCEPT !.pc = "returned", !.server = server,
                              !.request = out.request, !.ret = out.ret]
    /\ UNCHANGED <<mgr_vars, agent_vars, reg, web, lk, other_vars>>

NextZotero == \E server \in ZoteroResponses : ZoteroSearchCall(server)

SpecZotero == ZoteroInit /\ [][NextZotero]_vars

\* --------------------------------------------- LocalKnowledgeSource runs
MaxCalls == 4      \* most calls made on one LocalKnowledgeSource

\* what the retriever's method answers: it raises, or it finds documents
\* (for add_document, it returns)
RetrieverAnswers == {Raised} \cup {Ok(l) : l \in SeqUpTo({<<"a">>, <<"b">>}, 2)}

\* LocalKnowledgeSource(config): no retriever yet
LocalInit ==
    /\ lk = [LkIdle EXCEPT !.op = "init"]
    /\ sources = <<>>
    /\ MgrIdle
    /\ multi_source_manager = "none"
    /\ h_pc = "absent"
    /\ AgentIdle
    /\ reg = RegIdle
    /\ web = WebIdle
    /\ zot = ZotIdle
    /\ OthersIdle

\* one call of search, get_by_id or add_document, run to its return (none
\* of them suspends); constructs tells whether KnowledgeRetriever() can be
\* built now
LocalKnowledgeCall(op, constructs, answer) ==
    /\ lk.op # "none"
    /\ lk.calls < MaxCalls
    /\ LET g == GetKnowledgeRetriever(lk.retriever, lk.built, constructs)
       IN  lk' = [retriever |-> g.retriever, built |-> g.built,
                  failed |-> IF g.got = None THEN lk.failed + 1 ELSE lk.failed,
                  calls |-> lk.calls + 1, op |-> op, before |-> lk.retriever,
                  got |-> g.got, ret |-> LocalCall(op, g.got, answer)]
    /\ UNCHANGED <<mgr_vars, agent_vars, reg, web, zot, other_vars>>

NextLocal ==
    \/ \E c \in BOOLEAN, a \in RetrieverAnswers : LocalKnowledgeCall("search", c, a)
    \/ \E c \in BOOLEAN, a \in RetrieverAnswers : LocalKnowledgeCall("get_by_id", c, a)
    \/ \E c \in BOOLEAN, a \in RetrieverAnswers : LocalKnowledgeCall("add_document", c, a)

SpecLocal == LocalInit /\ [][NextLocal]_vars

\* ------------------------------------------ the manager's ranking by source
\* config entries as in multi_source_config_example.py: sources registered
\* under the names the weight table lists and under other names
ScoreEntries ==
    { [name |-> "web_search",
       value |-> SourceConfig(Some("web_search"), <<>>, None, None, FALSE)],
      [name |-> "zotero",
       value |-> SourceConfig(Some("zotero"), <<"k">>, Some(<<"1">>), None, FALSE)],
      [name |-> "zotero_personal",
       value |-> SourceConfig(Some("zotero"), <<"k">>, Some(<<"1">>), None, FALSE)],
      [name |-> "local_knowledge",
       value |-> SourceConfig(Some("web_search"), <<>>, None, None, FALSE)],
      [name |-> "local_papers",
       value |-> SourceConfig(Some("local_knowledge"), <<>>, None, None, TRUE)] }

ScoreConfigs ==
    {c \in SeqUpTo(ScoreEntries, MaxEntries) :
        \A i, j \in 1..Len(c) : i # j => c[i].name # c[j].name}

\* what the sources return (each at most the limit it was given): a title
\* match, an abstract match with two matching authors, one matching author
ScoreResults ==
    { SearchResult(<<"a">>, <<>>, NoText, "arxiv"),
      SearchResult(<<"b">>, << <<"a">>, <<"A">> >>, <<"a">>, "zotero"),
      SearchResult(<<"b">>, << <<"a">> >>, NoText, "local_knowledge") }

ScoreInit ==
    /\ sources \in {InitializeSources(c).val : c \in ScoreConfigs}
    /\ MgrIdle
    /\ multi_source_manager = "none"
    /\ h_pc = "absent"
    /\ AgentIdle
    /\ AdaptersIdle
    /\ OthersIdle

NextScore ==
    \/ \E q \in Queries : CallSearchAggregated(q, Some(MaxLimit))
    \/ \E i \in 1..Len(gathered),
          out \in Outcomes(ScoreResults,
                           Min({limit_per_source, MaxResults - Returned(gathered)})) :
            SourceComplete(i, out)
    \/ ResumeSearchAggregated

SpecScore == ScoreInit /\ [][NextScore]_vars

\* --------------------------------- registry calls during a search in flight
\* add_source / remove_source called by another task of the event loop
\* while search_all is suspended in its gather; reg.before keeps the
\* mapping as it was before the first such call, that is, when the search
\* was called
MutateDuringSearch(op, name, type, cfg, out) ==
    /\ mgr_pc = "gather"
    /\ reg' = [reg EXCEPT !.op = op, !.name = name, !.type = type, !.cfg = cfg,
                          !.before = IF reg.op = "none" THEN sources ELSE reg.before,
                          !.ret = out.ret]
    /\ sources' = out.sources
    /\ UNCHANGED <<mgr_pc, api, query, total_limit, limit_per_source,
                   source_names, gathered, ret, first_ret, agent_vars, web, zot, lk, other_vars>>

AddSourceDuringSearch(name, type, cfg) ==
    MutateDuringSearch("add_source", name, type, cfg,
                       add_source(sources, name, type, cfg))

RemoveSourceDuringSearch(name) ==
    MutateDuringSearch("remove_source", name, "", NotADict("none"),
                       remove_source(sources, name))

\* the sources added while a search is in flight: a valid one, an invalid one
ConcurrentAdds ==
    { [name |-> "B", type |-> "web_search",
       cfg |-> SourceConfig(None, <<>>, None, None, FALSE)],
      [name |-> "A", type |-> "zotero",
       cfg |-> SourceConfig(None, <<>>, Some(<<"1">>), None, FALSE)] }

NextConcurrent ==
    \/ \E lps \in 1..MaxLimit : CallSearchAll(<<"a">>, lps)
    \/ \E tl \in Limits : CallSearchAggregated(<<"a">>, tl)
    \/ \E i \in 1..Len(gathered),
          out \in Outcomes(AgentResults,
                           Min({limit_per_source, MaxResults - Returned(gathered)})) :
            SourceComplete(i, out)
    \/ \E a \in ConcurrentAdds : AddSourceDuringSearch(a.name, a.type, a.cfg)
    \/ \E name \in {"A", "local_knowledge"} : RemoveSourceDuringSearch(name)
    \/ ResumeSearchAll
    \/ ResumeSearchAggregated

SpecConcurrent == MgrInit /\ [][NextConcurrent]_vars

\* ------------------------------------------------- the WritingAgent's runs
MaxRetries == 2    \* largest max_retries handed to call_llm

\* WritingAgent(llm=...): no client, or a client whose last_error attribute
\* is unset or set
LlmClients ==
    {None, Some([last_error |-> None]), Some([last_error |-> Some("rate limit")])}

\* how llm.generate ends: it raises, or returns "", " ", None or a text
GenerateOutcomes ==
    { Raise("Network error"), Ok(Str(<<>>)), Ok(Str(<<" ">>)), Ok(NotAStr),
      Ok(Str(<<"x", " ">>)) }

\* task.get("theme", "诺贝尔奖"): the default theme (N) or another one
Themes == {<<"N">>, <<"t">>}

WritingInit ==
    /\ \E llm \in LlmClients : wa = [WaIdle EXCEPT !.llm = llm, !.pc = "idle"]
    /\ eh = EhIdle
    /\ sources = <<>>
    /\ MgrIdle
    /\ multi_source_manager = "none"
    /\ h_pc = "absent"
    /\ AgentIdle
    /\ AdaptersIdle

\* call_llm(prompt, max_retries) called on its own, up to its first
\* llm.generate call
CallLlm(prompt, max_retries) ==
    /\ wa.pc = "idle"
    /\ wa' = [CallLlmEnter(wa, prompt, max_retries) EXCEPT !.api = "call_llm"]
    /\ UNCHANGED <<mgr_vars, agent_vars, adapter_vars, eh>>

\* handle(task) up to the first llm.generate call of its call_llm(prompt),
\* or to its return when call_llm makes none
WritingHandle(theme) ==
    /\ wa.pc = "idle"
    /\ LET w == [CallLlmEnter(wa, BuildPrompt(theme), DefaultMaxRetries)
                    EXCEPT !.api = "handle"]
       IN  wa' = IF w.pc = "returned" THEN WritingHandleFinish(w) ELSE w
    /\ UNCHANGED <<mgr_vars, agent_vars, adapter_vars, eh>>

\* llm.generate ends: the loop of call_llm goes on to its next generate
\* call or call_llm returns, and with it handle when handle called it
Generate(out) ==
    /\ wa.pc = "loop"
    /\ LET w == CallLlmStep(wa, out)
       IN  wa' = IF w.pc = "returned" /\ w.api = "handle"
                 THEN WritingHandleFinish(w) ELSE w
    /\ UNCHANGED <<mgr_vars, agent_vars, adapter_vars, eh>>

NextWriting ==
    \/ \E theme \in Themes, n \in 0..MaxRetries : CallLlm(BuildPrompt(theme), n)
    \/ \E theme \in Themes : WritingHandle(theme)
    \/ \E out \in GenerateOutcomes : Generate(out)

SpecWriting == WritingInit /\ [][NextWriting]_vars

\* ------------------------------------------------- the ErrorHandler's calls
\* the exceptions handed to handle_error: standard ones and MCP errors
Messages == {"Invalid value", "Test error"}

Errors ==
    {StandardException(cls, m) :
        cls \in {"ValueError", "ConnectionError", "FileNotFoundError", "RuntimeError"},
        m \in Messages}
    \cup {MCPErrorObject(1, "ValidationError", m, "validation", "low", {}) : m \in Messages}
    \cup {MCPErrorObject(1, "LLMError", m, "llm", "medium", {<<"model", "gpt-4">>}) :
            m \in Messages}
    \cup {MCPErrorObject(1, "MCPError", m, "system", "medium", {}) : m \in Messages}

\* the context argument: omitted, empty, and dicts with one key
Contexts ==
    {None, Some({}), Some({<<"user_id", "123">>}), Some({<<"original_type", "x">>})}

ErrorInit ==
    /\ eh = [EhIdle EXCEPT !.pc = "idle"]
    /\ wa = WaIdle
    /\ sources = <<>>
    /\ MgrIdle
    /\ multi_source_manager = "none"
    /\ h_pc = "absent"
    /\ AgentIdle
    /\ AdaptersIdle

\* handle_error(error, context, reraise), from its call to its end
HandleErrorCall(error, ctx, reraise) ==
    /\ eh.pc = "idle"
    /\ eh' = [error |-> error, context |-> ctx, reraise |-> reraise,
              pc |-> "done", out |-> HandleError(error, ctx, reraise)]
    /\ UNCHANGED <<mgr_vars, agent_vars, adapter_vars, wa>>

NextErrors ==
    \E error \in Errors, ctx \in Contexts, reraise \in BOOLEAN :
        HandleErrorCall(error, ctx, reraise)

SpecErrors == ErrorInit /\ [][NextErrors]_vars

\* ------------------------------------------------------------------ claims
AggReturned == api = "search_aggregated" /\ mgr_pc \in {"returned", "again"}

\* the merged sequence of the finished search_aggregated call
Flat == Flatten(SearchAllCollect(source_names, gathered))

TitleContainsQuery(r) == Contains(lower(query), lower(r.title))

\* C1: for every total_limit >= 0, whatever the sources return or raise,
\* search_aggregated returns a list of at most total_limit results.
C1_LimitInvariant ==
    (AggReturned /\ total_limit # None) =>
        IsOk(ret) /\ Len(ret.val) <= total_limit[1]

\* C1 witness: a source raised, the others returned more distinct titles
\* than total_limit >= 1, and exactly total_limit results came back.
C1_Witness ==
    /\ AggReturned
    /\ \E i \in 1..Len(gathered) : IsRaised(gathered[i])
    /\ total_limit[1] >= 1
    /\ Len(DeduplicateResults(Flat)) > total_limit[1]
    /\ Len(ret.val) = total_limit[1]

\* C2: of the merged results whose titles are equal after lower-casing and
\* trimming, search_aggregated (not truncating) returns exactly one, the one
\* met first in registration order then output order; aggregating the same
\* per-source results again returns the same.
C2_DedupFirstWins ==
    /\ (AggReturned /\ IsOk(ret) /\ total_limit[1] >= Len(Flat)) =>
          \A i \in 1..Len(Flat) :
              LET same == {j \in 1..Len(Flat) : TitleKey(Flat[j]) = TitleKey(Flat[i])}
                  kept == {k \in 1..Len(ret.val) : TitleKey(ret.val[k]) = TitleKey(Flat[i])}
              IN  Cardinality(same) >= 2 =>
                      /\ Cardinality(kept) = 1
                      /\ \A k \in kept : ret.val[k] = Flat[Min(same)]
    /\ (mgr_pc = "again" => ret = first_ret)

\* C2 witness: A (registered first) returned "a", local_knowledge returned
\* "A "; the aggregation, run twice, kept the one entry tagged A.
C2_Witness ==
    /\ mgr_pc = "again"
    /\ source_names = <<"A", "local_knowledge">>
    /\ IsOk(gathered[1]) /\ IsOk(gathered[2])
    /\ Len(gathered[1].val) = 1 /\ gathered[1].val[1].title = <<"a">>
    /\ Len(gathered[2].val) = 1 /\ gathered[2].val[1].title = <<"A", " ">>
    /\ total_limit[1] >= 2
    /\ Len(ret.val) = 1
    /\ ret.val[1].data_source = "A"
    /\ ret.val[1].title = <<"a">>

\* C3: search_all returns one entry per registered source, in order: the
\* empty list for a source that raised, and for every other source exactly
\* the list it returned; search_all does not raise.
C3_SearchAllIsolation ==
    (api = "search_all" /\ mgr_pc = "returned") =>
        /\ IsOk(ret)
        /\ Len(ret.val) = Len(sources)
        /\ \A i \in 1..Len(sources) :
              /\ ret.val[i].name = sources[i].name
              /\ ret.val[i].results =
                    IF IsRaised(gathered[i]) THEN <<>> ELSE gathered[i].val

\* C3 witness: of two sources one raised and the other returned results.
C3_Witness ==
    /\ api = "search_all" /\ mgr_pc = "returned"
    /\ Len(sources) = 2
    /\ IsRaised(gathered[1])
    /\ IsOk(gathered[2]) /\ Len(gathered[2].val) >= 1
    /\ ret.val[2].results = gathered[2].val

\* C8: MultiSourceManager({}) registers nothing, and search_aggregated on a
\* manager without sources returns [] without raising: the per-source limit
\* is 0 and no source is called.
C8_EmptyConfig ==
    /\ InitializeSources(<<>>) = Ok(<<>>)
    /\ (api = "search_aggregated" /\ sources = <<>>) =>
          /\ ret = Ok(<<>>)
          /\ limit_per_source = 0
          /\ gathered = <<>>

\* C8 witness: search_aggregated returned on a manager without sources.
C8_Witness ==
    /\ api = "search_aggregated" /\ mgr_pc = "returned"
    /\ sources = <<>>
    /\ total_limit = Some(MaxLimit)
    /\ IsOk(ret)

\* C9: in search_aggregated's output a result whose title contains the
\* query (case-insensitively) stands before any result of the same source
\* with the same authors and abstract whose title does not.
C9_ScoreMonotone ==
    (AggReturned /\ IsOk(ret)) =>
        \A i, j \in 1..Len(ret.val) :
            ( /\ ret.val[i].data_source = ret.val[j].data_source
              /\ ret.val[i].authors = ret.val[j].authors
              /\ ret.val[i].abstract = ret.val[j].abstract
              /\ TitleContainsQuery(ret.val[i])
              /\ ~TitleContainsQuery(ret.val[j]) ) => i <= j

\* C9 witness: one source returned a non-matching title before a matching
\* one with the same authors and abstract, and the output has the matching
\* one first.
C9_Witness ==
    /\ AggReturned /\ IsOk(ret)
    /\ \E s \in 1..Len(gathered) :
          /\ IsOk(gathered[s]) /\ Len(gathered[s].val) = 2
          /\ ~TitleContainsQuery(gathered[s].val[1])
          /\ TitleContainsQuery(gathered[s].val[2])
          /\ gathered[s].val[1].authors = gathered[s].val[2].authors
          /\ gathered[s].val[1].abstract = gathered[s].val[2].abstract
          /\ Len(ret.val) >= 2
          /\ ret.val[1] = gathered[s].val[2]
          /\ ret.val[2] = gathered[s].val[1]

\* C10: search_aggregated's output is in descending relevance score, results
\* of equal score in the order they had after merging and de-duplication,
\* and it is the first total_limit results of that ranking.
C10_SortedStable ==
    (AggReturned /\ IsOk(ret)) =>
        LET U == DeduplicateResults(Flat)
            pos(r) == Min({k \in 1..Len(U) : U[k] = r})
            score(r) == RelevanceScore(r, query)
            out == ret.val
        IN  /\ \A i \in 1..Len(out) : \E k \in 1..Len(U) : U[k] = out[i]
            /\ Len(out) = IF total_limit[1] < Len(U) THEN total_limit[1] ELSE Len(U)
            /\ \A i, j \in 1..Len(out) :
                  i < j => /\ score(out[i]) >= score(out[j])
                           /\ score(out[i]) = score(out[j]) => pos(out[i]) < pos(out[j])
            /\ \A k \in 1..Len(U) :
                  (\A i \in 1..Len(out) : out[i] # U[k]) =>
                      \A i \in 1..Len(out) :
                          /\ score(out[i]) >= score(U[k])
                          /\ score(out[i]) = score(U[k]) => pos(out[i]) < k

\* C10 witness: three results came back, the first scoring above the other
\* two, which tie; it was the last of the merged list, and the tying pair
\* kept its merge order.
C10_Witness ==
    /\ AggReturned /\ IsOk(ret)
    /\ Len(ret.val) = 3
    /\ RelevanceScore(ret.val[1], query) > RelevanceScore(ret.val[2], query)
    /\ RelevanceScore(ret.val[2], query) = RelevanceScore(ret.val[3], query)
    /\ DeduplicateResults(Flat) = <<ret.val[2], ret.val[3], ret.val[1]>>

\* C4: handle with no query on an agent without a manager never raises and
\* never calls search_aggregated; data_sources is ["nobel_prize"] when the
\* baseline fetch succeeded and [] when it raised.
C4_BaselineOnly ==
    (h_pc = "done" /\ multi_source_manager = "none" /\ task.query = None) =>
        /\ IsOk(result)
        /\ agg_calls = 0
        /\ result.val.data_sources =
              IF IsRaised(baseline) THEN <<>> ELSE <<"nobel_prize">>

\* C4 witness: such a run returned after its baseline fetch raised.
C4_Witness ==
    /\ h_pc = "done" /\ multi_source_manager = "none" /\ task.query = None
    /\ IsRaised(baseline)
    /\ IsOk(result)

\* C5: handle returns with a CSV, a report and a result carrying metrics and
\* data_sources, never an exception; when the baseline fetch and
\* search_aggregated both raised the table has no rows, metrics['rows'] is 0
\* and data_sources is empty.
C5_HandleSucceeds ==
    h_pc = "done" =>
        /\ IsOk(result) /\ IsOk(csv) /\ IsOk(report)
        /\ result.val.metrics = report.val
        /\ result.val.metrics.data_sources = result.val.data_sources
        /\ (IsRaised(baseline) /\ IsRaised(ret)) =>
              /\ csv.val.rows = <<>>
              /\ result.val.metrics.rows = 0
              /\ result.val.data_sources = <<>>

\* C5 witness: handle returned after the baseline fetch raised and its one
\* call of search_aggregated raised.
C5_Witness ==
    /\ h_pc = "done"
    /\ IsRaised(baseline)
    /\ agg_calls = 1 /\ api = "search_aggregated" /\ IsRaised(ret)
    /\ IsOk(result)

\* C6: every name in the result's data_sources has a row in the written CSV
\* whose data_source is that name.
C6_DataSourcesHaveRows ==
    (h_pc = "done" /\ IsOk(result)) =>
        \A k \in 1..Len(result.val.data_sources) :
            \E i \in 1..Len(csv.val.rows) :
                csv.val.rows[i].data_source = result.val.data_sources[k]

\* C7: metrics['rows'] is the number of data rows of the CSV handle wrote.
C7_RowsMatchCsv ==
    (h_pc = "done" /\ IsOk(result)) =>
        result.val.metrics.rows = Len(csv.val.rows)

\* C7 witness: baseline and multi-source rows were merged, the title
\* de-duplication removed some, and rows were written.
C7_Witness ==
    /\ h_pc = "done" /\ IsOk(result)
    /\ Len(local.all_data) = 2
    /\ Len(csv.val.rows) < Len(Concat(local.all_data).rows)
    /\ Len(csv.val.rows) >= 2
    /\ result.val.metrics.rows = Len(csv.val.rows)

\* an entry of the constructor's config that is to be registered
EntryPasses(e) ==
    /\ e.value.kind = "dict"
    /\ e.value.type # None
    /\ e.value.type[1] \in source_types
    /\ IsOk(Construct(e.value.type[1], e.value))
    /\ ValidateConfig(e.value.type[1], e.value)

\* C11: the constructor never raises; the sources it registered are, under
\* their names and in config order, exactly the entries whose type is known,
\* whose adapter constructs and whose validate_config() is true.
C11_ConstructorSkipsBadEntries ==
    reg.ctor # Pending =>
        /\ IsOk(reg.ctor)
        /\ Names(reg.ctor.val) = Names(SelectSeq(reg.config, EntryPasses))

\* C12: add_source returns a flag and never raises; it returns True and
\* sets the source under its name exactly when the type is supported, the
\* adapter constructs and validate_config() is true, and otherwise leaves
\* the mapping as it was; remove_source deletes just the named source; every
\* registered source has a supported type and a valid config.
C12_AddSourceValidates ==
    /\ \A i \in 1..Len(sources) :
          /\ sources[i].type \in source_types
          /\ ValidateConfig(sources[i].type, sources[i].config)
    /\ reg.op = "add_source" =>
          LET pass == /\ reg.type \in source_types
                      /\ IsOk(Construct(reg.type, reg.cfg))
                      /\ ValidateConfig(reg.type, reg.cfg)
              others(srcs) == SelectSeq(srcs, LAMBDA x : x.name # reg.name)
          IN  /\ reg.ret = Ok(IF pass THEN "True" ELSE "False")
              /\ ~pass => sources = reg.before
              /\ pass => /\ others(sources) = others(reg.before)
                          /\ \E i \in 1..Len(sources) :
                                sources[i] = [name |-> reg.name, type |-> reg.type,
                                              config |-> reg.cfg]
    /\ reg.op = "remove_source" =>
          /\ reg.ret = Ok(IF reg.name \in {reg.before[i].name : i \in 1..Len(reg.before)}
                          THEN "True" ELSE "False")
          /\ sources = SelectSeq(reg.before, LAMBDA x : x.name # reg.name)

\* C12 witness: a source was added and later an add_source with a
\* supported type and an invalid config returned False next to it.
C12_Witness ==
    /\ reg.op = "add_source"
    /\ reg.type = "zotero" /\ reg.cfg.kind = "dict"
    /\ reg.ret = Ok("False")
    /\ \E i \in 1..Len(sources) :
          sources[i].name = reg.name /\ sources[i].type = "local_knowledge"
    /\ Len(sources) = 2
    /\ sources = reg.before

\* C13: health_check returns one entry per registered source, True when the
\* source's health check reports healthy and False when it reports
\* unhealthy or raises.
C13_HealthMapping ==
    reg.op = "health_check" =>
        /\ IsOk(reg.ret)
        /\ Len(reg.ret.val) = Len(sources)
        /\ \A i \in 1..Len(sources) :
              /\ reg.ret.val[i].name = sources[i].name
              /\ reg.ret.val[i].value = SourceHealthCheck(reg.probe[i])

WebReturned == web.pc = "returned"

\* what the gather of the web search handed back, merged in task order
WebMerged == WebMerge(web.tasks)

\* C14: every enabled backend, and no other, is queried, each with
\* limit // k, k the number of enabled backends.
C14_EvenPartition ==
    web.pc \in {"gather", "returned"} =>
        /\ {web.tasks[i].backend : i \in 1..Len(web.tasks)} = web.enabled
        /\ \A i \in 1..Len(web.tasks) :
              web.tasks[i].limit = web.limit \div Cardinality(web.enabled)

\* C15: search returns a list and never raises; every returned result is a
\* parsed item of a backend that answered with status 200, and every item of
\* such a backend that has a title is in the list, under its own or an
\* earlier duplicate's entry, unless the list is cut at limit.
C15_BackendIsolation ==
    WebReturned =>
        /\ IsOk(web.ret)
        /\ \A j \in 1..Len(web.ret.val) :
              \E i \in 1..Len(web.tasks) :
                  /\ web.tasks[i].response.kind = "200"
                  /\ \E k \in 1..Len(web.tasks[i].response.items) :
                        web.ret.val[j] = ParseItem(web.tasks[i].backend,
                                                   web.tasks[i].response.items[k])
        /\ \A i \in 1..Len(web.tasks) :
              web.tasks[i].response.kind = "200" =>
                  \A k \in 1..Len(web.tasks[i].response.items) :
                      LET r == ParseItem(web.tasks[i].backend,
                                         web.tasks[i].response.items[k])
                      IN  strip(lower(r.title)) # <<>> =>
                              \/ \E j \in 1..Len(web.ret.val) :
                                    strip(lower(web.ret.val[j].title))
                                        = strip(lower(r.title))
                              \/ Len(web.ret.val) = web.limit

\* C15 witness: of three backends one got no answer, one a non-200 status
\* with a body and one status 200; the list holds the results of the last.
C15_Witness ==
    /\ WebReturned /\ IsOk(web.ret)
    /\ Len(web.tasks) = 3
    /\ \E i \in 1..3 : web.tasks[i].response.kind = "error"
    /\ \E i \in 1..3 : /\ web.tasks[i].response.kind = "status"
                        /\ web.tasks[i].response.items # <<>>
    /\ \E i \in 1..3 : /\ web.tasks[i].response.kind = "200"
                        /\ Len(web.tasks[i].response.items) = 2
    /\ Len(web.ret.val) = 2

\* C16: no returned title is empty after trimming, no two returned titles
\* are equal after lower-casing and trimming, and each returned result is
\* the first of the merged results with its normalized title.
C16_WebDedup ==
    (WebReturned /\ IsOk(web.ret)) =>
        LET out == web.ret.val
            key(r) == strip(lower(r.title))
        IN  /\ \A j \in 1..Len(out) : key(out[j]) # <<>>
            /\ \A j, l \in 1..Len(out) : j # l => key(out[j]) # key(out[l])
            /\ \A j \in 1..Len(out) :
                  LET first == Min({k \in 1..Len(WebMerged) :
                                      key(WebMerged[k]) = key(out[j])})
                  IN  WebMerged[first] = out[j]

\* C16 witness: the merged results held an empty title and two different
\* results with one normalized title; the earlier of the two was returned.
C16_Witness ==
    /\ WebReturned /\ IsOk(web.ret)
    /\ \E k \in 1..Len(WebMerged) : strip(lower(WebMerged[k].title)) = <<>>
    /\ \E k, l \in 1..Len(WebMerged) :
          /\ k < l
          /\ WebMerged[k] # WebMerged[l]
          /\ WebMerged[k].title # WebMerged[l].title
          /\ strip(lower(WebMerged[k].title)) = strip(lower(WebMerged[l].title))
          /\ \E j \in 1..Len(web.ret.val) : web.ret.val[j] = WebMerged[k]
    /\ Len(web.ret.val) = 1

\* C17: the returned list is in descending citation count, a missing count
\* counting 0, equal counts in the order the de-duplicated merge had, and
\* it is the first `limit` results of that ranking of the de-duplicated
\* merge.
C17_CitationOrder ==
    (WebReturned /\ IsOk(web.ret)) =>
        LET U == WebUnique(WebMerged)
            pos(r) == Min({k \in 1..Len(U) : U[k] = r})
            count(r) == IF r.citation_count = <<>> THEN 0 ELSE r.citation_count[1]
            out == web.ret.val
        IN  /\ \A i \in 1..Len(out) : \E k \in 1..Len(U) : U[k] = out[i]
            /\ Len(out) = IF web.limit < Len(U) THEN web.limit ELSE Len(U)
            /\ \A i, j \in 1..Len(out) :
                  i < j => /\ count(out[i]) >= count(out[j])
                           /\ count(out[i]) = count(out[j]) => pos(out[i]) < pos(out[j])
            /\ \A k \in 1..Len(U) :
                  (\A i \in 1..Len(out) : out[i] # U[k]) =>
                      \A i \in 1..Len(out) :
                          /\ count(out[i]) >= count(U[k])
                          /\ count(out[i]) = count(U[k]) => pos(out[i]) < k

\* C17 witness: three results were merged, the second counting most and the
\* third without a count; two were returned, the second of the merge first
\* and the first of the merge, which ties with the third, after it.
C17_Witness ==
    /\ WebReturned /\ IsOk(web.ret)
    /\ web.limit = 2
    /\ Len(WebUnique(WebMerged)) = 3
    /\ WebUnique(WebMerged)[3].citation_count = <<>>
    /\ WebUnique(WebMerged)[1].citation_count = <<0>>
    /\ web.ret.val = <<WebUnique(WebMerged)[2], WebUnique(WebMerged)[1]>>

\* C18: search on a validly configured ZoteroSource sends its request to
\* the personal endpoint when a user id is set and to the group endpoint
\* otherwise, returns the parsed items on status 200 and the empty list,
\* raising nothing, on another status.
C18_ZoteroEndpoints ==
    (zot.pc = "returned" /\ ValidateConfig("zotero", zot.cfg)) =>
        /\ IsOk(zot.ret)
        /\ zot.request = Some(IF zot.cfg.user_id # None THEN "users" ELSE "groups")
        /\ zot.server.kind = "200" =>
              zot.ret.val = [i \in 1..Len(zot.server.items) |->
                                [title |-> zot.server.items[i].title,
                                 source |-> "zotero"]]
        /\ zot.server.kind = "status" => zot.ret.val = <<>>

\* C19: the retriever is constructed at most once; a call made while one
\* is cached is handed that instance and leaves it cached; a call made
\* while construction fails returns [] (search), None (get_by_id) or False
\* (add_document); no call raises.
C19_RetrieverBuiltOnce ==
    /\ lk.built <= 1
    /\ lk.retriever # <<>> => lk.retriever = <<1>>
    /\ lk.calls > 0 =>
          /\ lk.ret.st = "ok"
          /\ lk.before # <<>> => (lk.got = lk.before /\ lk.retriever = lk.before)
          /\ lk.got = <<>> =>
                /\ lk.retriever = <<>>
                /\ lk.ret.val = IF lk.op = "search" THEN <<>>
                                ELSE IF lk.op = "get_by_id" THEN <<>>
                                ELSE "False"

\* C19 witness: after a call whose construction failed and a call that
\* built the retriever, a third call was handed the cached instance and
\* found documents.
C19_Witness ==
    /\ lk.calls = 3
    /\ lk.failed = 1
    /\ lk.built = 1
    /\ lk.before = <<1>> /\ lk.got = <<1>>
    /\ lk.op = "search" /\ Len(lk.ret.val) = 2

\* C20: search_aggregated does not fail on results with an empty title,
\* and of two different merged results whose titles are empty after
\* trimming the later is not dropped as a duplicate of the earlier: it is
\* among the de-duplicated results.
C20_EmptyTitlesKept ==
    AggReturned =>
        /\ IsOk(ret)
        /\ \A k, l \in 1..Len(Flat) :
              (/\ k < l
               /\ strip(lower(Flat[k].title)) = <<>>
               /\ strip(lower(Flat[l].title)) = <<>>
               /\ Flat[k] # Flat[l]) =>
                  \E j \in 1..Len(DeduplicateResults(Flat)) :
                      DeduplicateResults(Flat)[j] = Flat[l]

\* C27: the CSV handle wrote has the baseline rows plus the multi-source
\* rows minus only the rows whose (present) title equals an earlier row's
\* title; a row with a missing title is never removed.
C27_OnlyTitleCollisionsRemoved ==
    (h_pc = "done" /\ IsOk(csv) /\ local.all_data # <<>>) =>
        LET merged == Concat(local.all_data).rows
            collisions ==
                {i \in 1..Len(merged) :
                    /\ merged[i].title # NaN
                    /\ \E j \in 1..(i - 1) : merged[j].title = merged[i].title}
        IN  Len(csv.val.rows) = Len(merged) - Cardinality(collisions)

\* C23: when the task names data sources in task['sources'], no row of
\* the written CSV comes from a registered source that the task does not
\* name.
C23_OnlyNamedSources ==
    (h_pc = "done" /\ IsOk(csv) /\ task.sources # None) =>
        \A i \in 1..Len(csv.val.rows) :
            \/ csv.val.rows[i].data_source = "nobel_prize"
            \/ \E k \in 1..Len(task.sources[1]) :
                  task.sources[1][k] = csv.val.rows[i].data_source

\* C24: search_aggregated(query, total_limit) over n >= 1 registered
\* sources starts one search per registered source, each with the limit
\* max(1, total_limit // n); with no registered source the per-source limit
\* is 0 and no search is started.
C24_PerSourceLimit ==
    (api = "search_aggregated" /\ total_limit # None) =>
        IF Len(sources) = 0
        THEN limit_per_source = 0 /\ gathered = <<>>
        ELSE /\ limit_per_source = Max({1, total_limit[1] \div Len(sources)})
             /\ Len(gathered) = Len(sources)
             /\ source_names = Names(sources)
             /\ \A i, j \in 1..Len(source_names) :
                   source_names[i] = source_names[j] => i = j

\* C24 witness: a finished call over two sources with total_limit 1, each
\* source searched with limit 1.
C24_Witness ==
    /\ api = "search_aggregated" /\ mgr_pc = "returned"
    /\ Len(sources) = 2
    /\ total_limit = Some(1)
    /\ limit_per_source = 1
    /\ AllDone(gathered)

\* C25: every result search_aggregated returns was returned by some
\* source's search and carries that source's registered name as its
\* data_source, whatever data_source (or no metadata at all) the adapter
\* had given it.
C25_StampedWithSourceName ==
    (AggReturned /\ IsOk(ret)) =>
        \A j \in 1..Len(ret.val) :
            \E i \in 1..Len(gathered) :
                /\ IsOk(gathered[i])
                /\ \E k \in 1..Len(gathered[i].val) : gathered[i].val[k] = ret.val[j]
                /\ ret.val[j].data_source = source_names[i]

\* C25 witness: the returned list holds the result titled "b", which its
\* adapter returned with data_source "zotero", and a result that came
\* without metadata; both carry the registered name of their source.
C25_Witness ==
    /\ AggReturned /\ IsOk(ret)
    /\ Len(source_names) = 2
    /\ \E j, l \in 1..Len(ret.val) :
          /\ IsOk(gathered[1]) /\ IsOk(gathered[2])
          /\ ret.val[j].title = <<"b">>
          /\ ret.val[j].data_source = source_names[1]
          /\ gathered[1].val # <<>> /\ gathered[1].val[1] = ret.val[j]
          /\ ret.val[l].title = <<"a">>
          /\ ret.val[l].data_source = source_names[2]

\* the registered name of the source that contributed a merged result
ContributorOf(k) ==
    LET e == SearchAllCollect(source_names, gathered)
        before(i) == Len(Flatten(SubSeq(e, 1, i)))
    IN  source_names[CHOOSE i \in 1..Len(e) : before(i - 1) < k /\ k <= before(i)]

\* C26: the score search_aggregated ranks by is the match points (2.0
\* title, 1.0 abstract, 0.5 per matching author, case-insensitive) times the
\* weight of the contributing source: 1.0 web_search, 1.2 local_knowledge,
\* 1.1 zotero, 1.0 any other; the returned list is in descending order of it.
C26_ScoreFormula ==
    (AggReturned /\ IsOk(ret)) =>
        LET weight(name) == CASE name = "web_search" -> 10
                              [] name = "local_knowledge" -> 12
                              [] name = "zotero" -> 11
                              [] OTHER -> 10
            points(r) ==
                (IF Contains(lower(query), lower(r.title)) THEN 20 ELSE 0)
                + (IF Contains(lower(query), lower(r.abstract)) THEN 10 ELSE 0)
                + 5 * Cardinality({i \in 1..Len(r.authors) :
                                      Contains(lower(query), lower(r.authors[i]))})
            score(k) == points(Flat[k]) * weight(ContributorOf(k))
        IN  /\ \A k \in 1..Len(Flat) : RelevanceScore(Flat[k], query) = score(k)
            /\ \A i, j \in 1..Len(ret.val) :
                  i < j => \E k, l \in 1..Len(Flat) :
                              /\ Flat[k] = ret.val[i] /\ Flat[l] = ret.val[j]
                              /\ score(k) >= score(l)

\* C26 witness: a source registered as "zotero" returned a result with an
\* abstract match and two matching authors (2.0 * 1.1), which is returned
\* ahead of the title match of a source weighted 1.0.
C26_Witness ==
    /\ AggReturned /\ IsOk(ret)
    /\ source_names = <<"web_search", "zotero">>
    /\ Len(ret.val) = 2
    /\ ret.val[1].data_source = "zotero"
    /\ Len(ret.val[1].authors) = 2
    /\ RelevanceScore(ret.val[1], query) = 220
    /\ ret.val[2].data_source = "web_search"
    /\ RelevanceScore(ret.val[2], query) = 200

\* C29: the weight is looked up by the name the source is registered
\* under, not by the adapter's type: results of a zotero or local_knowledge
\* adapter registered under another name score with weight 1.0, and
\* results of any adapter registered as "local_knowledge" with 1.2.
C29_WeightByRegisteredName ==
    (AggReturned /\ IsOk(ret)) =>
        LET unweighted(r) ==
                (IF Contains(lower(query), lower(r.title)) THEN 20 ELSE 0)
                + (IF Contains(lower(query), lower(r.abstract)) THEN 10 ELSE 0)
                + 5 * Cardinality({i \in 1..Len(r.authors) :
                                      Contains(lower(query), lower(r.authors[i]))})
        IN  \A k \in 1..Len(Flat) :
                \A i \in 1..Len(sources) :
                    sources[i].name = ContributorOf(k) =>
                        /\ (/\ sources[i].type \in {"zotero", "local_knowledge"}
                            /\ sources[i].name \notin {"zotero", "local_knowledge"})
                           => RelevanceScore(Flat[k], query) = unweighted(Flat[k]) * 10
                        /\ sources[i].name = "local_knowledge"
                           => RelevanceScore(Flat[k], query) = unweighted(Flat[k]) * 12

\* C29 witness: a zotero adapter registered as "zotero_personal" and a
\* web_search adapter registered as "local_knowledge" returned results with
\* the same match points; the second is weighted 1.2 and is returned first.
C29_Witness ==
    /\ AggReturned /\ IsOk(ret)
    /\ Len(sources) = 2
    /\ sources[1].name = "zotero_personal" /\ sources[1].type = "zotero"
    /\ sources[2].name = "local_knowledge" /\ sources[2].type = "web_search"
    /\ Len(ret.val) = 2
    /\ ret.val[1].data_source = "local_knowledge"
    /\ ret.val[2].data_source = "zotero_personal"
    /\ RelevanceScore(ret.val[1], query) = 240
    /\ RelevanceScore(ret.val[2], query) = 200

\* C28: a search_all / search_aggregated call works on the sources
\* registered when it was called: whatever add_source / remove_source did
\* while its searches were in flight, it returns without failing, its
\* mapping has exactly the names registered at call time, each with what
\* that source's search returned, and the per-source limit of
\* search_aggregated comes from the call-time count.
C28_CallTimeSnapshot ==
    (mgr_pc = "returned" /\ (api = "search_aggregated" => total_limit # None)) =>
        LET called == IF reg.op = "none" THEN sources ELSE reg.before
            mapping == [i \in 1..Len(called) |->
                           [name |-> called[i].name,
                            results |-> IF IsRaised(gathered[i]) THEN <<>>
                                        ELSE gathered[i].val]]
        IN  /\ IsOk(ret)
            /\ Len(gathered) = Len(called)
            /\ api = "search_all" => ret.val = mapping
            /\ api = "search_aggregated" =>
                  /\ ret.val = Aggregate(mapping, query, total_limit)
                  /\ limit_per_source =
                        IF called = <<>> THEN 0
                        ELSE Max({1, total_limit[1] \div Len(called)})

\* C28 witness: a source was removed while a search_all over two sources
\* was in flight; the call returned both names, the removed source's
\* results included.
C28_Witness ==
    /\ mgr_pc = "returned" /\ api = "search_all"
    /\ reg.op = "remove_source" /\ reg.ret = Ok("True")
    /\ Len(reg.before) = 2 /\ Len(sources) = 1
    /\ IsOk(ret) /\ Len(ret.val) = 2
    /\ \E i \in 1..2 :
          /\ ret.val[i].name = reg.name
          /\ ret.val[i].results # <<>>

C30_LlmUsedTruthful ==
    (wa.api = "handle" /\ wa.pc = "returned") =>
        LET k == Len(wa.results)
            generated ==
                /\ k >= 1
                /\ IsOk(wa.results[k])
                /\ wa.results[k].val.type = "str"
                /\ wa.result.val.draft = wa.results[k].val.text
        IN  /\ wa.result.val.llm.used => generated
            /\ ~generated => /\ ~wa.result.val.llm.used
                             /\ wa.result.val.llm.error # None

\* C22: handle_error with reraise=True raises: the very MCPError it was
\* given, or for any other exception a new MCPError of category system whose
\* details hold the original exception's type name; with reraise=False it
\* returns the error-information dict and does not raise.
C22_ReraiseContract ==
    eh.pc = "done" =>
        IF eh.reraise
        THEN /\ IsRaised(eh.out)
             /\ IF "MCPError" \in Bases(eh.error.cls)
                THEN eh.out.val = eh.error
                ELSE /\ eh.out.val.id # eh.error.id
                     /\ "MCPError" \in Bases(eh.out.val.cls)
                     /\ eh.out.val.category = "system"
                     /\ <<"original_type", eh.error.cls>> \in eh.out.val.details
        ELSE /\ IsOk(eh.out)
             /\ eh.out.val.message = eh.error.message

\* C22 witness: a ValueError handed over with a context and reraise=True
\* came back as a new MCPError naming ValueError as the original type.
C22_Witness ==
    /\ eh.pc = "done" /\ eh.reraise
    /\ eh.error.cls = "ValueError"
    /\ eh.context = Some({<<"original_type", "x">>})
    /\ IsRaised(eh.out)
    /\ eh.out.val.cls = "MCPError"
    /\ eh.out.val.details = {<<"original_type", "ValueError">>}

====
